---------------------------- MODULE Spec2Model ----------------------------
(***************************************************************************)
(* mdwiki: the single-writer mutation actor (src/wiki.rs), the validator   *)
(* and tree scan (src/config.rs, src/utils.rs) and the request handlers     *)
(* that feed the actor (src/webapp.rs).                                     *)
(*                                                                         *)
(* Paths.  A path is the sequence of its components, as std::path's         *)
(* components() yields them.  A component is the sequence of the pieces of  *)
(* its text between dots: "page.md" is <<"page","md">>, "newdir" is         *)
(* <<"newdir">>, ".." is <<"","","">>, "." is <<"","">>, and the root "/"   *)
(* (an empty text before the first separator) is <<"">>.  File contents     *)
(* are sequences of text pieces.                                            *)
(***************************************************************************)
EXTENDS Integers, Sequences, FiniteSets, TLC

\* ------------------------------------------------------------------ bounds

\* Handler invocations (callers); each sends one request and awaits its reply.
NumCallers == 2

\* Environment failures (I/O, repository, build) injected over one run.
MaxFaults == 1

\* Requests the actor is followed through when it starts on a full channel.
MaxServed == 2

\* ------------------------------------------------------- program constants

\* mpsc::channel(100)
ChannelCapacity == 100

\* path.ancestors().count() > 5
MaxAncestors == 5

RESERVED_NAMES == { <<"SUMMARY", "md">>, <<"index", "md">> }

RESERVED_PREFIXES == { <<"new">>, <<"edit">>, <<"upload">>, <<"images">> }

MDWIKI_USER == "mdwiki"

SERVICE_EMAIL == "mdwiki@example.com"

SUMMARY_HEAD == <<"SUMMARY_HEAD">>

MDWIKI_README == <<"MDWIKI_README">>

README_MD == <<"README", "md">>

\* include_str!("../files/default_book.toml"), as one piece of text.
MDWIKI_BOOK_TOML == <<"MDWIKI_BOOK_TOML">>

\* include_str!("../files/default_gitignore"), as one piece of text.
MDWIKI_GITIGNORE == <<"MDWIKI_GITIGNORE">>

\* include_str!("../files/theme_override_head.html.hbs"), as one piece of text.
THEME_OVERRIDE_SCRIPT == <<"THEME_OVERRIDE_SCRIPT">>

\* ------------------------------------------------------------------- paths

ParentDir == <<"", "", "">>

CurDir == <<"", "">>

RootDir == <<"">>

\* std::path::Component: Normal unless the text is "..", "." or the root.
ComponentKind(comp) ==
    IF comp = ParentDir THEN "ParentDir"
    ELSE IF comp = CurDir THEN "CurDir"
    ELSE IF comp = RootDir THEN "RootDir"
    ELSE "Normal"

Front(s) == SubSeq(s, 1, Len(s) - 1)

Last(s) == s[Len(s)]

None == <<>>

Some(x) == <<x>>

\* Every component is Component::Normal.
path_is_simple(path) ==
    ~ \E i \in 1..Len(path) : ComponentKind(path[i]) # "Normal"

\* Path::file_name: the last component when it is a normal one.
file_name(path) ==
    IF Len(path) > 0 /\ ComponentKind(Last(path)) = "Normal"
    THEN Some(Last(path))
    ELSE None

\* A name that starts with a dot and has no other dot has no extension.
IsDotFile(name) == Len(name) = 2 /\ name[1] = ""

\* Path::extension: the text after the last dot of the file name.
extension(path) ==
    IF file_name(path) = None THEN None
    ELSE LET name == file_name(path)[1]
         IN  IF Len(name) = 1 \/ IsDotFile(name) THEN None
             ELSE Some(Last(name))

\* Path::file_stem: the file name without its extension.
file_stem(path) ==
    IF file_name(path) = None THEN None
    ELSE LET name == file_name(path)[1]
         IN  IF Len(name) = 1 \/ IsDotFile(name) THEN Some(name)
             ELSE Some(Front(name))

\* path.extension().map(|ext| ext != "md").unwrap_or(true)
not_markdown(path) ==
    IF extension(path) = None THEN TRUE ELSE extension(path)[1] # "md"

\* Path::starts_with and Path::ends_with compare whole components.
starts_with(path, base) ==
    Len(base) <= Len(path) /\ SubSeq(path, 1, Len(base)) = base

ends_with(path, child) ==
    Len(child) <= Len(path)
    /\ SubSeq(path, Len(path) - Len(child) + 1, Len(path)) = child

\* Path::ancestors().count() of a relative path: the path, each parent, and "".
ancestors_count(path) ==
    IF Len(path) > 0 /\ path[1] = RootDir THEN Len(path) ELSE Len(path) + 1

\* A reserved prefix matched against the text of the path, not its components.
is_reserved_name_textual(path) ==
    (\E reserved \in RESERVED_NAMES : ends_with(path, <<reserved>>))
    \/ (\E reserved \in RESERVED_PREFIXES : starts_with(path, <<reserved>>))
    \/ (Len(path) > 0 /\ path[1][1] \in {"newfile", "newdir"})

is_reserved_name(path) ==
    (\E reserved \in RESERVED_NAMES : ends_with(path, <<reserved>>))
    \/ (\E reserved \in RESERVED_PREFIXES : starts_with(path, <<reserved>>))

\* --------------------------------------------------------------- responses

OK(msg) == [kind |-> "OK", msg |-> msg]

BadRequest(msg) == [kind |-> "BadRequest", msg |-> msg]

NotAllowed(msg) == [kind |-> "NotAllowed", msg |-> msg]

NotFound(msg) == [kind |-> "NotFound", msg |-> msg]

Error(msg) == [kind |-> "Error", msg |-> msg]

is_ok(resp) == resp.kind = "OK"

\* --------------------------------------------------------------- validator

\* Path::is_file of <path>/src/<file>; fileset is the set of files under src.
is_file(fileset, path) == path \in fileset

is_dir(dirset, path) == path \in dirset

safe_path(path) ==
    IF ~ path_is_simple(path) THEN BadRequest(Some("must be simple"))
    ELSE IF not_markdown(path) THEN BadRequest(Some("needs .md extension"))
    ELSE IF is_reserved_name(path) THEN BadRequest(Some("reserved"))
    ELSE OK(None)

can_edit_no_existence_check(fileset, path) == safe_path(path)

can_edit_existence_first(fileset, path) ==
    IF ~ is_file(fileset, path) THEN NotFound(Some("no file named"))
    ELSE safe_path(path)

can_edit(fileset, path) ==
    IF ~ is_ok(safe_path(path)) THEN safe_path(path)
    ELSE IF ~ is_file(fileset, path) THEN NotFound(Some("no file named"))
    ELSE OK(None)

can_create_no_existence_check(fileset, path) ==
    IF ~ is_ok(safe_path(path)) THEN safe_path(path)
    ELSE IF ancestors_count(path) > MaxAncestors
         THEN BadRequest(Some("too many nested directories"))
    ELSE OK(None)

can_create_one_level_less(fileset, path) ==
    IF ~ is_ok(safe_path(path)) THEN safe_path(path)
    ELSE IF ancestors_count(path) >= MaxAncestors
         THEN BadRequest(Some("too many nested directories"))
    ELSE IF is_file(fileset, path) THEN BadRequest(Some("already exists"))
    ELSE OK(None)

can_create(fileset, path) ==
    IF ~ is_ok(safe_path(path)) THEN safe_path(path)
    ELSE IF ancestors_count(path) > MaxAncestors
         THEN BadRequest(Some("too many nested directories"))
    ELSE IF is_file(fileset, path) THEN BadRequest(Some("already exists"))
    ELSE OK(None)


\* --------------------------------------------------------------- tree scan

\* The byte-wise order (OsStr's Ord) of the component names that can occur
\* under src, least first.
ByteOrder ==
    << <<"", "md">>, <<"README", "md">>, <<"SUMMARY", "md">>, <<"a">>,
       <<"a", "md">>, <<"b">>, <<"b", "md">>, <<"c">>, <<"c", "md">>, <<"d">>,
       <<"d", "md">>, <<"e", "md">>, <<"images">>, <<"index", "md">>,
       <<"my_page", "md">>, <<"new">>, <<"newdir">>, <<"page">>,
       <<"page", "md">>, <<"page", "txt">>, <<"pic", "png">>, <<"sub", "md">> >>

NameRank(name) == CHOOSE i \in 1..Len(ByteOrder) : ByteOrder[i] = name

Min(a, b) == IF a < b THEN a ELSE b

\* Path's Ord: component by component, a proper prefix first.
PathLess(a, b) ==
    LET diff == { i \in 1..Min(Len(a), Len(b)) : a[i] # b[i] }
    IN  IF diff = {} THEN Len(a) < Len(b)
        ELSE LET k == CHOOSE i \in diff : \A j \in diff : i <= j
             IN  NameRank(a[k]) < NameRank(b[k])

\* The entries fs::read_dir yields for a directory, as a set of paths.
DirEntries(dirset, fileset, path) ==
    { p \in dirset \cup fileset : Len(p) = Len(path) + 1 /\ Front(p) = path }

RECURSIVE Enumerate(_, _)
\* The entries in the order the filesystem hands them out: ascending by name,
\* or descending when rev.
Enumerate(entries, rev) ==
    IF entries = {} THEN <<>>
    ELSE LET first == CHOOSE p \in entries :
                          \A q \in entries \ {p} :
                              IF rev THEN PathLess(q, p) ELSE PathLess(p, q)
         IN  <<first>> \o Enumerate(entries \ {first}, rev)

read_dir(dirset, fileset, path, rev) ==
    Enumerate(DirEntries(dirset, fileset, path), rev)

File(path) == [kind |-> "File", path |-> path, children |-> <<>>]

Directory(path, children) ==
    [kind |-> "Directory", path |-> path, children |-> children]

RECURSIVE InsertSorted(_, _)
InsertSorted(sorted, node) ==
    IF sorted = <<>> THEN <<node>>
    ELSE IF PathLess(node.path, sorted[1].path)
         THEN <<node>> \o sorted
         ELSE <<sorted[1]>> \o InsertSorted(Tail(sorted), node)

sort_by_path_skipped(children) == children

RECURSIVE sort_by_path(_)
\* children.sort_by(|a, b| a.path().cmp(b.path()))
sort_by_path(children) ==
    IF children = <<>> THEN <<>>
    ELSE InsertSorted(sort_by_path(Front(children)), Last(children))

RECURSIVE Unwrap(_)
\* The Some(..) values of a sequence of options, in order.
Unwrap(options) ==
    IF options = <<>> THEN <<>>
    ELSE options[1] \o Unwrap(Tail(options))

visit_file_with_index(path) ==
    IF not_markdown(path) THEN None
    ELSE IF is_reserved_name(path) THEN None
    ELSE Some(File(path))

visit_file(path) ==
    IF not_markdown(path) THEN None
    ELSE IF file_stem(path) = None \/ file_stem(path) = Some(<<"README">>)
         THEN None
    ELSE IF is_reserved_name(path) THEN None
    ELSE Some(File(path))

RECURSIVE visit_into_images(_, _, _, _)
visit_into_images(dirset, fileset, path, rev) ==
    IF is_dir(dirset, path)
    THEN LET entries == read_dir(dirset, fileset, path, rev)
             visited == [i \in 1..Len(entries) |->
                            visit_into_images(dirset, fileset, entries[i], rev)]
         IN  Some(Directory(path, sort_by_path(Unwrap(visited))))
    ELSE visit_file(path)

RECURSIVE visit(_, _, _, _)
\* get_wiki_tree's visit, on the path relative to src.
visit(dirset, fileset, path, rev) ==
    IF is_dir(dirset, path)
    THEN IF starts_with(path, << <<"images">> >>) THEN None
         ELSE LET entries == read_dir(dirset, fileset, path, rev)
                  visited == [i \in 1..Len(entries) |->
                                 visit(dirset, fileset, entries[i], rev)]
              IN  Some(Directory(path, sort_by_path(Unwrap(visited))))
    ELSE visit_file(path)

get_wiki_tree(dirset, fileset, rev) == visit(dirset, fileset, <<>>, rev)[1]

\* ------------------------------------------------------------ navigation

\* str::replace("_", " ") on one piece of text.
replace_underscores(piece) ==
    IF piece = "my_page" THEN "my page" ELSE piece

Title_raw(stem) == stem

\* .replace("_", " ") on the pieces of a stem.
Title(stem) == [i \in 1..Len(stem) |-> replace_underscores(stem[i])]

HeadBlock == [kind |-> "head", indent |-> 0, title |-> SUMMARY_HEAD, link |-> <<>>]

\* "{1:0$}- [{2}]({3})\n": indent spaces, the title, the link.
Entry(indent, title, link) ==
    [kind |-> "entry", indent |-> indent, title |-> title, link |-> link]

RECURSIVE build_summary_children_first(_)
build_summary_children_first(tree) ==
    LET level == ancestors_count(tree.path) - 2
        RECURSIVE Children(_)
        Children(nodes) ==
            IF nodes = <<>> THEN <<>>
            ELSE build_summary_children_first(nodes[1]) \o Children(Tail(nodes))
    IN  IF tree.kind = "File"
        THEN << Entry(level * 2, Title(file_stem(tree.path)[1]), tree.path) >>
        ELSE Children(tree.children)
             \o (IF tree.path = <<>>
                 THEN << HeadBlock >>
                 ELSE << Entry(level * 2,
                               Title(IF file_stem(tree.path) = None
                                     THEN <<"README">>
                                     ELSE file_stem(tree.path)[1]),
                               tree.path \o <<README_MD>>) >>)

RECURSIVE build_summary(_)
build_summary(tree) ==
    LET level == ancestors_count(tree.path) - 2
        RECURSIVE Children(_)
        Children(nodes) ==
            IF nodes = <<>> THEN <<>>
            ELSE build_summary(nodes[1]) \o Children(Tail(nodes))
    IN  IF tree.kind = "File"
        THEN << Entry(level * 2, Title(file_stem(tree.path)[1]), tree.path) >>
        ELSE (IF tree.path = <<>>
              THEN << HeadBlock >>
              ELSE << Entry(level * 2,
                            Title(IF file_stem(tree.path) = None
                                  THEN <<"README">>
                                  ELSE file_stem(tree.path)[1]),
                            tree.path \o <<README_MD>>) >>)
             \o Children(tree.children)

\* The text update_summary writes to src/SUMMARY.md.
render_summary(dirset, fileset, rev) ==
    build_summary(get_wiki_tree(dirset, fileset, rev))


\* ---------------------------------------------------------------- requests

Callers == 1..NumCallers

Users == <<"alice", "bob">>

\* The authenticated user of handler invocation c.
UserOf(c) == Users[((c - 1) % Len(Users)) + 1]

Texts == <<"Hello", "x", "y">>

\* The content field of the form handler invocation c submits.
ContentOf(c) == << Texts[((c - 1) % Len(Texts)) + 1] >>

\* The file field of the new-page form.
FormPaths ==
    { << <<"README", "md">> >>,
      << <<"my page", "md">> >>,
      << <<"newdir">>, <<"page", "md">> >>,
      << <<"new">>, <<"page", "md">> >>,
      << <<"my page", "md">>, <<"sub", "md">> >> }

\* str::replace(" ", "_") on one piece of text.
replace_spaces(piece) ==
    IF piece = "my page" THEN "my_page" ELSE piece

\* form.file.replace(" ", "_"), then Path::new.
FormFile(text) ==
    [i \in 1..Len(text) |-> [j \in 1..Len(text[i]) |-> replace_spaces(text[i][j])]]

\* The <file..> segments of an edit URL: the pages the site links to.
UrlPaths == { FormFile(text) : text \in FormPaths }

NoReq == [id |-> 0, kind |-> "None", user |-> "", file |-> <<>>, content |-> <<>>]

CreateFile(c, file, content) ==
    [id |-> c, kind |-> "CreateFile", user |-> UserOf(c), file |-> file,
     content |-> content]

EditFile(c, file, content) ==
    [id |-> c, kind |-> "EditFile", user |-> UserOf(c), file |-> file,
     content |-> content]

\* ------------------------------------------------------------------- state

VARIABLES
    dirs,       \* the directories of the book, as paths relative to <path>/src
    files,      \* the files of the book except src/SUMMARY.md: path relative
                \* to <path>/src (".." first for one beside src) -> content
    summary,    \* the content of <path>/src/SUMMARY.md
    history,    \* the commits of the repository, oldest first; HEAD is the last
    book,       \* what the last successful MDBook::build rendered
    queue,      \* the mpsc channel from the handlers to the actor
    arrival,    \* the ids of the requests in the order they were sent
    request,    \* the request each handler invocation sent
    caller,     \* the position of each handler invocation
    respond,    \* the oneshot channel of each request
    actor,      \* the position of WikiState::serve and the request it holds
    trace,      \* what the actor has done, in order
    faults,     \* environment failures injected so far
    loaded,     \* what the last read-only handler got
    dir_lock    \* the holder of AppState::dir_lock (lock-based handlers), or Unlocked

vars ==
    <<dirs, files, summary, history, book, queue, arrival, request, caller,
      respond, actor, trace, faults, loaded, dir_lock>>

Ev(id, what) == [req |-> id, ev |-> what]

Snapshot(fs, text) == [files |-> fs, summary |-> text]

NewCommit_orphan(hist, user, message, tree, id) ==
    [author |-> user, email |-> SERVICE_EMAIL, message |-> message,
     parent |-> 0, tree |-> tree, req |-> id]

\* The commit WikiState::commit creates on top of the history so far.
NewCommit(hist, user, message, tree, id) ==
    [author |-> user, email |-> SERVICE_EMAIL, message |-> message,
     parent |-> Len(hist), tree |-> tree, req |-> id]

Message(verb, file) == [verb |-> verb, file |-> file]

\* Mutex::new(()): nobody holds the lock.
Unlocked == 0

\* No read-only handler has run yet.
NoLoad == [by |-> "none", file |-> <<>>, content |-> None]

\* What a read-only handler got: the content of a file, or nothing.
Load(by, file, content) == [by |-> by, file |-> file, content |-> content]

\* book_path.join("book.toml"), seen from src.
BOOK_TOML == << ParentDir, <<"book", "toml">> >>

\* book_path.join(".gitignore"), seen from src.
GITIGNORE == << ParentDir, <<"", "gitignore">> >>

\* book_path.join("theme"), seen from src.
THEME_DIR == << ParentDir, <<"theme">> >>

\* theme_dir.join("head.hbs").
THEME_PATH == THEME_DIR \o << <<"head", "hbs">> >>

\* The directories init_book leaves on an empty directory: src, src/images
\* and theme.
InitDirs == { <<>>, << <<"images">> >>, THEME_DIR }

\* The files init_book leaves on an empty directory, SUMMARY.md aside.
InitFiles ==
    (<< README_MD >> :> MDWIKI_README)
    @@ (BOOK_TOML :> MDWIKI_BOOK_TOML)
    @@ (GITIGNORE :> MDWIKI_GITIGNORE)
    @@ (THEME_PATH :> THEME_OVERRIDE_SCRIPT)

\* What the bootstrap commit of init_book holds: the theme script is written
\* after it.
BootFiles == [p \in (DOMAIN InitFiles) \ {THEME_PATH} |-> InitFiles[p]]

\* The state WikiState::setup leaves on an empty directory.
Init ==
    /\ dirs = InitDirs
    /\ files = InitFiles
    /\ summary = render_summary(InitDirs, DOMAIN InitFiles, FALSE)
    /\ history = << NewCommit(<<>>, MDWIKI_USER,
                              Message("Initial mdwiki commit", <<>>),
                              Snapshot(BootFiles,
                                       render_summary(InitDirs, DOMAIN InitFiles, FALSE)),
                              0) >>
    /\ book = Snapshot(InitFiles, render_summary(InitDirs, DOMAIN InitFiles, FALSE))
    /\ queue = <<>>
    /\ arrival = <<>>
    /\ request = [c \in Callers |-> NoReq]
    /\ caller = [c \in Callers |-> "idle"]
    /\ respond = [c \in Callers |-> [state |-> "none", sent |-> <<>>]]
    /\ actor = [pc |-> "recv", req |-> NoReq]
    /\ trace = <<>>
    /\ faults = 0
    /\ loaded = NoLoad
    /\ dir_lock = Unlocked

\* ---------------------------------------------------------------- handlers

Send_unbounded(c, req) ==
    /\ actor.pc # "panicked"
    /\ queue' = Append(queue, req)
    /\ arrival' = Append(arrival, c)
    /\ request' = [request EXCEPT ![c] = req]
    /\ respond' = [respond EXCEPT ![c].state = "open"]
    /\ caller' = [caller EXCEPT ![c] = "waiting"]
    /\ UNCHANGED <<dirs, files, summary, history, book, actor, trace, faults>>
    /\ UNCHANGED <<loaded, dir_lock>>

\* state.tx.send(request).await: waits while the channel is full; fails, and
\* the handler panics on unwrap, once the receiver is gone.
Send(c, req) ==
    /\ \/ /\ actor.pc # "panicked"
          /\ Len(queue) < ChannelCapacity
          /\ queue' = Append(queue, req)
          /\ arrival' = Append(arrival, c)
          /\ request' = [request EXCEPT ![c] = req]
          /\ respond' = [respond EXCEPT ![c].state = "open"]
          /\ caller' = [caller EXCEPT ![c] = "waiting"]
       \/ /\ actor.pc = "panicked"
          /\ caller' = [caller EXCEPT ![c] = "panicked"]
          /\ UNCHANGED <<queue, arrival, request, respond>>
    /\ UNCHANGED <<dirs, files, summary, history, book, actor, trace, faults>>
    /\ UNCHANGED <<loaded, dir_lock>>

\* webapp.rs new_page_post, up to the send.
new_page_post(c) ==
    /\ caller[c] = "idle"
    /\ \E text \in FormPaths :
           Send(c, CreateFile(c, FormFile(text), ContentOf(c)))

\* webapp.rs edit_page_post, up to the send.
edit_page_post(c) ==
    /\ caller[c] = "idle"
    /\ \E file \in UrlPaths :
           Send(c, EditFile(c, file, ContentOf(c)))

\* res.msg().cloned().unwrap_or("Something went wrong :("): the message the
\* handler puts on the form it renders for a reply that is not OK.
shown_message(resp) ==
    IF resp.msg = None THEN "Something went wrong :(" ELSE resp.msg[1]

\* ------------------------------------------------------------------- actor

\* self.rx.recv(): the oldest request of the channel.
recv_newest(q) == [req |-> Last(q), rest |-> Front(q)]

recv(q) == [req |-> Head(q), rest |-> Tail(q)]

internal_error_leaking(cause) == Error(Some(cause))

\* .map_err(log_warn).map_err(|_| WikiResponse::Error(None)): the error of a
\* failed stage is logged and the response built from it drops its text.
internal_error(cause) == Error(None)

\* serve awaits the next request only at the top of its loop.
at_loop_top_or_busy(pc) == pc # "panicked"

at_loop_top(pc) == pc = "recv"

\* let _ = respond.send(resp), then the next turn of the loop: a send into a
\* slot whose receiver is gone ("closed") fails and the failure is dropped.  The handler waiting
\* in rx.await resumes with the reply; what it does from there (a redirect or
\* the form again with the message) touches nothing the actor or another
\* handler reads.
Reply(resp, events) ==
    /\ IF respond[actor.req.id].state = "closed"
       THEN UNCHANGED <<respond, caller>>
       ELSE /\ respond' = [respond EXCEPT
                             ![actor.req.id] = [state |-> "sent",
                                                sent |-> Append(@.sent, resp)]]
            /\ caller' = [caller EXCEPT ![actor.req.id] = "done"]
    /\ actor' = [pc |-> "recv", req |-> NoReq]
    /\ trace' = trace \o events \o << Ev(actor.req.id, "replied") >>

Goto(pc, events) ==
    /\ actor' = [actor EXCEPT !.pc = pc]
    /\ trace' = trace \o events
    /\ UNCHANGED <<respond, caller>>

Fault == /\ faults < MaxFaults
         /\ faults' = faults + 1

\* A loop that throws away a request whose reply slot is closed.
Recv_skipping_closed ==
    /\ at_loop_top(actor.pc)
    /\ queue # <<>>
    /\ queue' = recv(queue).rest
    /\ IF respond[recv(queue).req.id].state = "closed"
       THEN UNCHANGED <<actor, trace>>
       ELSE /\ actor' = [pc |-> "validate", req |-> recv(queue).req]
            /\ trace' = Append(trace, Ev(recv(queue).req.id, "received"))
    /\ UNCHANGED <<dirs, files, summary, history, book, arrival, request,
                   caller, respond, faults>>
    /\ UNCHANGED <<loaded, dir_lock>>

\* while let Some(req) = self.rx.recv().await
Recv ==
    /\ at_loop_top(actor.pc)
    /\ queue # <<>>
    /\ queue' = recv(queue).rest
    /\ actor' = [pc |-> "validate", req |-> recv(queue).req]
    /\ trace' = Append(trace, Ev(recv(queue).req.id, "received"))
    /\ UNCHANGED <<dirs, files, summary, history, book, arrival, request,
                   caller, respond, faults>>
    /\ UNCHANGED <<loaded, dir_lock>>

\* The first line of create_file and of edit_file.
validate(fileset, req) ==
    IF req.kind = "CreateFile" THEN can_create(fileset, req.file)
    ELSE can_edit(fileset, req.file)

Validate ==
    /\ actor.pc = "validate"
    /\ LET resp == validate(DOMAIN files, actor.req)
       IN  \/ /\ ~ is_ok(resp)
              /\ Reply(resp, << Ev(actor.req.id, "rejected") >>)
           \/ /\ is_ok(resp)
              /\ Goto(IF actor.req.kind = "CreateFile" THEN "create_dirs" ELSE "write",
                      << Ev(actor.req.id, "validated") >>)
    /\ UNCHANGED <<dirs, files, summary, history, book, queue, arrival,
                   request, faults>>
    /\ UNCHANGED <<loaded, dir_lock>>

\* The prefixes of a path, shortest first, the path itself last.
Prefixes(path) == [i \in 1..Len(path) |-> SubSeq(path, 1, i)]

\* The directories fs::create_dir_all(parent) has to create, outermost first.
MissingDirs(dirset, parent) ==
    SelectSeq(Prefixes(parent), LAMBDA d : d \notin dirset)

\* create_file, "if let Some(parent) = path.parent()": create the missing
\* ancestor directories.  It fails when a file stands where a directory is
\* needed, or when the filesystem fails after some were created.
CreateDirs ==
    /\ actor.pc = "create_dirs"
    /\ LET parent == Front(actor.req.file)
           missing == MissingDirs(dirs, parent)
           blocked == \E i \in 1..Len(missing) : missing[i] \in DOMAIN files
       IN  \/ /\ ~ blocked
              /\ dirs' = dirs \cup { missing[i] : i \in 1..Len(missing) }
              /\ Goto("index", << Ev(actor.req.id, "dirs") >>)
              /\ UNCHANGED faults
           \/ /\ blocked
              /\ Reply(internal_error("create_dir_all failed"), << Ev(actor.req.id, "failed") >>)
              /\ UNCHANGED <<dirs, faults>>
           \/ /\ ~ blocked
              /\ missing # <<>>
              /\ Fault
              /\ \E n \in 0..(Len(missing) - 1) :
                     dirs' = dirs \cup { missing[i] : i \in 1..n }
              /\ Reply(internal_error("create_dir_all failed"), << Ev(actor.req.id, "failed") >>)
    /\ UNCHANGED <<files, summary, history, book, queue, arrival, request>>
    /\ UNCHANGED <<loaded, dir_lock>>

\* file.ancestors() without the file itself: innermost directory first, the
\* content root last.
AncestorDirs(file) ==
    [i \in 1..Len(file) |-> SubSeq(file, 1, Len(file) - i)]

MissingIndexes_inverted(fileset, file) ==
    LET indexes == [i \in 1..Len(file) |-> AncestorDirs(file)[i] \o <<README_MD>>]
    IN  SelectSeq(indexes, LAMBDA p : is_file(fileset, p))

\* A loop that writes the index of every ancestor, present or not.
MissingIndexes_every_ancestor(fileset, file) ==
    [i \in 1..Len(file) |-> AncestorDirs(file)[i] \o <<README_MD>>]

\* The index files the loop of create_file finds absent, in its order.
MissingIndexes(fileset, file) ==
    LET indexes == [i \in 1..Len(file) |-> AncestorDirs(file)[i] \o <<README_MD>>]
    IN  SelectSeq(indexes, LAMBDA p : ~ is_file(fileset, p))

IndexContent_todo(p) == <<"# ", "TODO">>

\* format!("# {}", dir.file_stem()...unwrap_or("TODO")) for the index at p.
IndexContent(p) ==
    LET dir == Front(p)
    IN  <<"# ">> \o (IF file_stem(dir) = None THEN <<"TODO">> ELSE file_stem(dir)[1])

\* fs::write can put a file at p: its directory exists and p is no directory.
Writable(dirset, p) == Front(p) \in dirset /\ p \notin dirset

\* create_file, "for dir in ancestors": a placeholder index for every
\* ancestor directory without one.  A failed write ends the request and
\* leaves the indexes written before it.
SynthIndex ==
    /\ actor.pc = "index"
    /\ LET missing == MissingIndexes(DOMAIN files, actor.req.file)
           written(n) == [p \in { missing[i] : i \in 1..n } |-> IndexContent(p)]
           ok(n) == \A i \in 1..n : Writable(dirs, missing[i])
       IN  \/ /\ ok(Len(missing))
              /\ files' = written(Len(missing)) @@ files
              /\ Goto("write", << Ev(actor.req.id, "index") >>)
              /\ UNCHANGED faults
           \/ \E n \in 0..(Len(missing) - 1) :
                  /\ ok(n)
                  /\ IF Writable(dirs, missing[n + 1]) THEN Fault ELSE UNCHANGED faults
                  /\ files' = written(n) @@ files
                  /\ Reply(internal_error("index write failed"), << Ev(actor.req.id, "failed") >>)
    /\ UNCHANGED <<dirs, summary, history, book, queue, arrival, request>>
    /\ UNCHANGED <<loaded, dir_lock>>

WriteContent_unlink_first ==
    /\ actor.pc = "write"
    /\ \/ /\ Writable(dirs, actor.req.file)
          /\ files' = (actor.req.file :> actor.req.content) @@ files
          /\ Goto(IF actor.req.kind = "CreateFile" THEN "update_summary" ELSE "get_book",
                  << Ev(actor.req.id, "written") >>)
          /\ UNCHANGED faults
       \/ /\ IF Writable(dirs, actor.req.file) THEN Fault ELSE UNCHANGED faults
          /\ Reply(internal_error("content write failed"), << Ev(actor.req.id, "failed") >>)
          /\ files' = [p \in (DOMAIN files) \ {actor.req.file} |-> files[p]]
    /\ UNCHANGED <<dirs, summary, history, book, queue, arrival, request>>
    /\ UNCHANGED <<loaded, dir_lock>>

\* fs::write(path, content) in create_file and in edit_file.
WriteContent ==
    /\ actor.pc = "write"
    /\ \/ /\ Writable(dirs, actor.req.file)
          /\ files' = (actor.req.file :> actor.req.content) @@ files
          /\ Goto(IF actor.req.kind = "CreateFile" THEN "update_summary" ELSE "get_book",
                  << Ev(actor.req.id, "written") >>)
          /\ UNCHANGED faults
       \/ /\ IF Writable(dirs, actor.req.file) THEN Fault ELSE UNCHANGED faults
          /\ Reply(internal_error("content write failed"), << Ev(actor.req.id, "failed") >>)
          /\ UNCHANGED files
    /\ UNCHANGED <<dirs, summary, history, book, queue, arrival, request>>
    /\ UNCHANGED <<loaded, dir_lock>>

\* on_created: self.update_summary().  get_wiki_tree unwraps the result of
\* fs::read_dir, so a failed directory read panics inside serve: the request
\* in hand and the channel with everything queued in it are dropped, and
\* every handler waiting in rx.await gets a RecvError, which it unwraps.
UpdateSummary ==
    /\ actor.pc = "update_summary"
    /\ \/ /\ \E rev \in BOOLEAN : summary' = render_summary(dirs, DOMAIN files, rev)
          /\ Goto("get_book", << Ev(actor.req.id, "summary") >>)
          /\ UNCHANGED <<faults, queue>>
       \/ /\ Fault
          /\ Reply(internal_error("could not write summary file"), << Ev(actor.req.id, "failed") >>)
          /\ UNCHANGED <<summary, queue>>
       \/ /\ Fault
          /\ actor' = [pc |-> "panicked", req |-> NoReq]
          /\ trace' = Append(trace, Ev(actor.req.id, "panicked"))
          /\ LET lost == { actor.req.id } \cup { queue[i].id : i \in 1..Len(queue) }
             IN  /\ respond' = [c \in DOMAIN respond |->
                                  IF c \in lost
                                  THEN [respond[c] EXCEPT !.state = "dropped"]
                                  ELSE respond[c]]
                 /\ caller' = [c \in DOMAIN caller |->
                                 IF c \in lost /\ caller[c] # "gone"
                                 THEN "panicked" ELSE caller[c]]
          /\ queue' = <<>>
          /\ UNCHANGED summary
    /\ UNCHANGED <<dirs, files, history, book, arrival, request>>
    /\ UNCHANGED <<loaded, dir_lock>>

\* self.get_book(): Repository::open and MDBook::load.
GetBook ==
    /\ actor.pc = "get_book"
    /\ \/ /\ Goto("commit", << Ev(actor.req.id, "opened") >>)
          /\ UNCHANGED faults
       \/ /\ Fault
          /\ Reply(internal_error("could not find git repo or book"), << Ev(actor.req.id, "failed") >>)
    /\ UNCHANGED <<dirs, files, summary, history, book, queue, arrival, request>>
    /\ UNCHANGED <<loaded, dir_lock>>

\* format!("Create {}", file) in on_created, format!("Edit {}", file) in on_edited.
commit_message(req) ==
    Message(IF req.kind = "CreateFile" THEN "Create" ELSE "Edit", req.file)

commit_detached(hist, req, fs, text) == hist

commit_amend(hist, req, fs, text) ==
    IF Len(hist) > 1
    THEN Append(Front(hist),
                NewCommit(Front(hist), req.user, commit_message(req), Snapshot(fs, text), req.id))
    ELSE Append(hist,
                NewCommit(hist, req.user, commit_message(req), Snapshot(fs, text), req.id))

commit_before_write(hist, req, fs, text) ==
    Append(hist,
           NewCommit(hist, req.user, commit_message(req),
                     Snapshot([p \in (DOMAIN fs) \ {req.file} |-> fs[p]], text),
                     req.id))

commit_as_mdwiki(hist, req, fs, text) ==
    Append(hist, NewCommit(hist, MDWIKI_USER, commit_message(req), Snapshot(fs, text), req.id))

\* A commit that stages the file of the request and nothing else.
commit_own_file_only(hist, req, fs, text) ==
    LET head == Last(hist).tree.files
        staged == IF req.file \in DOMAIN fs
                  THEN (req.file :> fs[req.file]) @@ head ELSE head
    IN  Append(hist, NewCommit(hist, req.user, commit_message(req),
                               Snapshot(staged, text), req.id))

\* self.commit(&repo, user, message): add_all, write the tree, commit on HEAD.
commit(hist, req, fs, text) ==
    Append(hist, NewCommit(hist, req.user, commit_message(req), Snapshot(fs, text), req.id))

Commit_rollback ==
    /\ actor.pc = "commit"
    /\ \/ /\ history' = commit(history, actor.req, files, summary)
          /\ Goto("build", << Ev(actor.req.id, "committed") >>)
          /\ UNCHANGED <<faults, files>>
       \/ /\ Fault
          /\ Reply(internal_error("commit failed"), << Ev(actor.req.id, "failed") >>)
          /\ files' = [p \in (DOMAIN files) \ {actor.req.file} |-> files[p]]
          /\ UNCHANGED history
    /\ UNCHANGED <<dirs, summary, book, queue, arrival, request>>
    /\ UNCHANGED <<loaded, dir_lock>>

Commit ==
    /\ actor.pc = "commit"
    /\ \/ /\ history' = commit(history, actor.req, files, summary)
          /\ Goto("build", << Ev(actor.req.id, "committed") >>)
          /\ UNCHANGED faults
       \/ /\ Fault
          /\ Reply(internal_error("commit failed"), << Ev(actor.req.id, "failed") >>)
          /\ UNCHANGED history
    /\ UNCHANGED <<dirs, files, summary, book, queue, arrival, request>>
    /\ UNCHANGED <<loaded, dir_lock>>

Build_stale ==
    /\ actor.pc = "build"
    /\ \/ /\ Reply(OK(None), << Ev(actor.req.id, "rebuilt") >>)
          /\ UNCHANGED <<faults, book>>
       \/ /\ Fault
          /\ Reply(internal_error("failed to build book"), << Ev(actor.req.id, "failed") >>)
          /\ UNCHANGED book
    /\ UNCHANGED <<dirs, files, summary, history, queue, arrival, request>>
    /\ UNCHANGED <<loaded, dir_lock>>

\* A rebuild whose failure takes the request's commit off the history.
Build_undoing_commit ==
    /\ actor.pc = "build"
    /\ \/ /\ book' = Snapshot(files, summary)
          /\ Reply(OK(None), << Ev(actor.req.id, "rebuilt") >>)
          /\ UNCHANGED <<faults, history>>
       \/ /\ Fault
          /\ Reply(internal_error("failed to build book"), << Ev(actor.req.id, "failed") >>)
          /\ history' = Front(history)
          /\ UNCHANGED book
    /\ UNCHANGED <<dirs, files, summary, queue, arrival, request>>
    /\ UNCHANGED <<loaded, dir_lock>>

\* book.build(), then respond.send(WikiResponse::OK(None)).
Build ==
    /\ actor.pc = "build"
    /\ \/ /\ book' = Snapshot(files, summary)
          /\ Reply(OK(None), << Ev(actor.req.id, "rebuilt") >>)
          /\ UNCHANGED faults
       \/ /\ Fault
          /\ Reply(internal_error("failed to build book"), << Ev(actor.req.id, "failed") >>)
          /\ UNCHANGED book
    /\ UNCHANGED <<dirs, files, summary, history, queue, arrival, request>>
    /\ UNCHANGED <<loaded, dir_lock>>

\* WikiState::serve: one request at a time, through all its stages.
serve ==
    \/ Recv
    \/ Validate
    \/ CreateDirs
    \/ SynthIndex
    \/ WriteContent
    \/ UpdateSummary
    \/ GetBook
    \/ Commit
    \/ Build

Next ==
    \/ \E c \in Callers : new_page_post(c)
    \/ \E c \in Callers : edit_page_post(c)
    \/ serve

Spec == Init /\ [][Next]_vars

\* ------------------------------------------------------- a full channel

\* Handler invocations that enqueued before the ones of Callers did.
Background == (NumCallers + 1)..(NumCallers + ChannelCapacity)

\* What the i-th of them sent: the first a page in a new directory, the others
\* edits of a page nobody created.
BackgroundRequest(i) ==
    IF i = 1
    THEN CreateFile(NumCallers + i, << <<"newdir">>, <<"page", "md">> >>,
                    ContentOf(NumCallers + i))
    ELSE EditFile(NumCallers + i, << <<"my_page", "md">> >>, ContentOf(NumCallers + i))

\* The wiki after setup, with the channel filled to its capacity by requests
\* the actor has not taken yet; their handlers wait for the replies.
InitFull ==
    /\ dirs = InitDirs
    /\ files = InitFiles
    /\ summary = render_summary(InitDirs, DOMAIN InitFiles, FALSE)
    /\ history = << NewCommit(<<>>, MDWIKI_USER,
                              Message("Initial mdwiki commit", <<>>),
                              Snapshot(BootFiles,
                                       render_summary(InitDirs, DOMAIN InitFiles, FALSE)),
                              0) >>
    /\ book = Snapshot(InitFiles, render_summary(InitDirs, DOMAIN InitFiles, FALSE))
    /\ queue = [i \in 1..ChannelCapacity |-> BackgroundRequest(i)]
    /\ arrival = [i \in 1..ChannelCapacity |-> NumCallers + i]
    /\ request = [c \in Callers \cup Background |->
                     IF c \in Callers THEN NoReq ELSE BackgroundRequest(c - NumCallers)]
    /\ caller = [c \in Callers \cup Background |->
                    IF c \in Callers THEN "idle" ELSE "waiting"]
    /\ respond = [c \in Callers \cup Background |->
                     IF c \in Callers THEN [state |-> "none", sent |-> <<>>]
                     ELSE [state |-> "open", sent |-> <<>>]]
    /\ actor = [pc |-> "recv", req |-> NoReq]
    /\ trace = <<>>
    /\ faults = 0
    /\ loaded = NoLoad
    /\ dir_lock = Unlocked

\* The requests the actor has taken from the channel so far.
Served == Len(SelectSeq(trace, LAMBDA e : e.ev = "received"))

\* The actor takes its next request, up to the MaxServed-th.
RecvBounded ==
    /\ Served < MaxServed
    /\ Recv

\* The same handlers and the same actor, followed through its first
\* MaxServed requests.
NextFull ==
    \/ \E c \in Callers : new_page_post(c)
    \/ \E c \in Callers : edit_page_post(c)
    \/ RecvBounded
    \/ Validate
    \/ CreateDirs
    \/ SynthIndex
    \/ WriteContent
    \/ UpdateSummary
    \/ GetBook
    \/ Commit
    \/ Build

SpecFull == InitFull /\ [][NextFull]_vars


\* ------------------------------------------------------ read-only handlers

\* webapp.rs edit_page (GET /edit/<file..>): the validator, then the file as
\* it is in the working tree at this moment; it does not go through the
\* actor.
edit_page(file) ==
    /\ is_ok(can_edit(DOMAIN files, file))
    /\ loaded' = Load("edit_page", file, Some(files[file]))
    /\ UNCHANGED dir_lock
    /\ UNCHANGED <<dirs, files, summary, history, book, queue, arrival, request,
                   caller, respond, actor, trace, faults>>

\* webapp.rs book_files (GET /<path..>): the file as the last build put it
\* into the book directory; the rendering of a page stands for the page.
book_files(path) ==
    /\ path \in DOMAIN book.files
    /\ loaded' = Load("book_files", path, Some(book.files[path]))
    /\ UNCHANGED dir_lock
    /\ UNCHANGED <<dirs, files, summary, history, book, queue, arrival, request,
                   caller, respond, actor, trace, faults>>

\* The handlers that send requests, the actor, and the read-only handlers
\* beside them.
NextRead ==
    \/ \E c \in Callers : new_page_post(c)
    \/ \E c \in Callers : edit_page_post(c)
    \/ Recv
    \/ Validate
    \/ CreateDirs
    \/ SynthIndex
    \/ WriteContent
    \/ UpdateSummary
    \/ GetBook
    \/ Commit
    \/ Build
    \/ \E file \in UrlPaths : edit_page(file)
    \/ \E path \in UrlPaths : book_files(path)

SpecRead == Init /\ [][NextRead]_vars

\* ------------------------------------------------- callers that go away

\* How many handlers are dropped while they wait for their reply.
MaxDrops == 1

\* The future of a handler that waits in rx.await is dropped (its client went
\* away): the receiver of its reply slot is dropped with it.  The request it
\* sent stays where it is, in the channel or in the actor's hands.
drop_receiver(c) ==
    /\ Cardinality({ d \in Callers : caller[d] = "gone" }) < MaxDrops
    /\ caller[c] = "waiting"
    /\ respond[c].state = "open"
    /\ respond' = [respond EXCEPT ![c].state = "closed"]
    /\ caller' = [caller EXCEPT ![c] = "gone"]
    /\ UNCHANGED <<dirs, files, summary, history, book, queue, arrival, request,
                   actor, trace, faults>>
    /\ UNCHANGED <<loaded, dir_lock>>

NextDrop ==
    \/ \E c \in Callers : new_page_post(c)
    \/ \E c \in Callers : edit_page_post(c)
    \/ \E c \in Callers : drop_receiver(c)
    \/ serve

SpecDrop == Init /\ [][NextDrop]_vars

\* ------------------------------------------- the lock-based handlers

\* main.rs and routes.rs: the handlers of the version without the actor.
\* Each validates, takes dir_lock, and writes, updates the navigation
\* document, commits and rebuilds itself.  caller[c] is the statement
\* handler invocation c is at, request[c] what it was asked to do.

\* repo.signature(): the author git is configured with, whoever asked.
REPO_SIGNATURE == "repo.signature"

\* AppState::commit: add_all, write the tree, commit on HEAD.
commit_with_repo_signature(hist, req, fs, text) ==
    Append(hist, NewCommit(hist, REPO_SIGNATURE, commit_message(req),
                           Snapshot(fs, text), req.id))

\* A step of handler invocation c that touches neither the actor nor its
\* channel.
HandlerStep(c, pc) ==
    /\ caller' = [caller EXCEPT ![c] = pc]
    /\ UNCHANGED <<queue, arrival, respond, actor, trace, faults, loaded>>

\* new_page_post up to the lock: can_create, outside the lock.
locked_new_page_post(c) ==
    /\ caller[c] = "idle"
    /\ \E text \in FormPaths :
           /\ request' = [request EXCEPT
                            ![c] = CreateFile(c, FormFile(text), ContentOf(c))]
           /\ IF is_ok(can_create(DOMAIN files, FormFile(text)))
              THEN HandlerStep(c, "lock")
              ELSE HandlerStep(c, "bad_request")
    /\ UNCHANGED <<dirs, files, summary, history, book, dir_lock>>

\* edit_page_post up to the lock: can_edit, outside the lock.
locked_edit_page_post(c) ==
    /\ caller[c] = "idle"
    /\ \E file \in UrlPaths :
           /\ request' = [request EXCEPT ![c] = EditFile(c, file, ContentOf(c))]
           /\ IF is_ok(can_edit(DOMAIN files, file))
              THEN HandlerStep(c, "lock")
              ELSE HandlerStep(c, "not_found")
    /\ UNCHANGED <<dirs, files, summary, history, book, dir_lock>>

\* state.dir_lock.lock().unwrap(): blocks while another thread holds the
\* mutex, then yields the guard.
lock(c) ==
    /\ caller[c] = "lock"
    /\ dir_lock = Unlocked
    /\ dir_lock' = c
    /\ HandlerStep(c, "guard")
    /\ UNCHANGED <<dirs, files, summary, history, book, request>>

\* let _ = <guard>;  The pattern _ binds nothing, so the guard is a temporary
\* dropped at the end of this statement: the mutex is released before the
\* statements of the block run.
drop_guard(c) ==
    /\ caller[c] = "guard"
    /\ dir_lock' = Unlocked
    /\ HandlerStep(c, "write")
    /\ UNCHANGED <<dirs, files, summary, history, book, request>>

\* new_page_post: create_dir_all, the index loop, fs::write of the page;
\* edit_page_post: fs::write of the page.  A failure returns
\* Status::InternalServerError with what was written so far left in place.
section_write(c) ==
    /\ caller[c] = "write"
    /\ LET req == request[c]
           missing == IF req.kind = "CreateFile"
                      THEN MissingDirs(dirs, Front(req.file)) ELSE <<>>
           blocked == \E i \in 1..Len(missing) : missing[i] \in DOMAIN files
           made == dirs \cup { missing[i] : i \in 1..Len(missing) }
           indexes == IF req.kind = "CreateFile"
                      THEN MissingIndexes(DOMAIN files, req.file) ELSE <<>>
           written == [p \in { indexes[i] : i \in 1..Len(indexes) } |-> IndexContent(p)]
                      @@ files
       IN  \/ /\ blocked
              /\ HandlerStep(c, "error")
              /\ UNCHANGED <<dirs, files>>
           \/ /\ ~ blocked
              /\ ~ Writable(made, req.file)
              /\ dirs' = made
              /\ files' = written
              /\ HandlerStep(c, "error")
           \/ /\ ~ blocked
              /\ Writable(made, req.file)
              /\ dirs' = made
              /\ files' = (req.file :> req.content) @@ written
              /\ HandlerStep(c, IF req.kind = "CreateFile"
                                THEN "update_summary" ELSE "commit")
    /\ UNCHANGED <<summary, history, book, request, dir_lock>>

\* on_created: self.update_summary().
section_update_summary(c) ==
    /\ caller[c] = "update_summary"
    /\ \E rev \in BOOLEAN : summary' = render_summary(dirs, DOMAIN files, rev)
    /\ HandlerStep(c, "commit")
    /\ UNCHANGED <<dirs, files, history, book, request, dir_lock>>

\* on_created, on_edited: self.commit(&repo, message).
section_commit(c) ==
    /\ caller[c] = "commit"
    /\ history' = commit_with_repo_signature(history, request[c], files, summary)
    /\ HandlerStep(c, "build")
    /\ UNCHANGED <<dirs, files, summary, book, request, dir_lock>>

\* on_created, on_edited: book.build(); then the end of the block and the
\* redirect.
section_build(c) ==
    /\ caller[c] = "build"
    /\ book' = Snapshot(files, summary)
    /\ HandlerStep(c, "done")
    /\ UNCHANGED <<dirs, files, summary, history, request, dir_lock>>

NextLock ==
    \/ \E c \in Callers : locked_new_page_post(c)
    \/ \E c \in Callers : locked_edit_page_post(c)
    \/ \E c \in Callers : lock(c)
    \/ \E c \in Callers : drop_guard(c)
    \/ \E c \in Callers : section_write(c)
    \/ \E c \in Callers : section_update_summary(c)
    \/ \E c \in Callers : section_commit(c)
    \/ \E c \in Callers : section_build(c)

\* Rocket runs each request's handler on one of its worker threads.
SpecLock == Init /\ [][NextLock]_vars

\* ----------------------------------------------------------------- start-up

\* How often the program is started again after it stopped.
MaxRestarts == 1

\* src/SUMMARY.md is not there.
NoSummary == <<>>

book_never_loads(text) == FALSE

\* MDBook::load(path) succeeds: there is a src/SUMMARY.md to read.
book_loads(text) == text # NoSummary

\* Nothing has been built into the book directory yet.
NoBook == Snapshot(<<>>, NoSummary)

\* Files a directory handed to mdwiki may already hold.
SeedFiles ==
    { << README_MD >>,
      << <<"a">>, <<"a", "md">> >>,
      << <<"a">>, <<"b", "md">> >>,
      << <<"a">>, <<"index", "md">> >>,
      << <<"c", "md">> >>,
      << <<"page", "txt">> >>,
      << <<"", "md">> >>,
      << <<"new">>, <<"page", "md">> >>,
      << <<"images">>, <<"page", "md">> >>,
      << <<"images">>, <<"pic", "png">> >> }

\* The text of a file that was there before mdwiki.
SeedContent(p) == <<"seed">>

\* The directories that hold the files of a set, src itself among them.
DirsOf(fileset) ==
    UNION { { SubSeq(p, 1, n) : n \in 0..(Len(p) - 1) } : p \in fileset }

\* A commit somebody made before mdwiki was pointed at the repository.
ForeignCommit(tree) ==
    [author |-> "operator", email |-> "operator@example.com",
     message |-> Message("import", <<>>), parent |-> 0, tree |-> tree, req |-> 0]

\* The directory mdwiki is started on: empty, a directory of notes, a git
\* repository, a book, or a wiki an earlier run has set up.
InitBoot ==
    /\ \E seed \in SUBSET SeedFiles, hasBook, hasHistory \in BOOLEAN :
       \E hasTheme \in {FALSE, hasBook} :
           LET fileset == seed \cup (IF hasTheme THEN {THEME_PATH} ELSE {})
               content == [p \in fileset |->
                              IF p = THEME_PATH THEN THEME_OVERRIDE_SCRIPT
                              ELSE SeedContent(p)]
               dirset == DirsOf(seed)
                         \cup (IF hasBook THEN {<<>>} ELSE {})
                         \cup (IF hasTheme THEN {THEME_DIR} ELSE {})
               text == IF hasBook THEN render_summary(dirset, fileset, FALSE)
                       ELSE NoSummary
           IN  /\ dirs = dirset
               /\ files = content
               /\ summary = text
               /\ history = IF hasHistory
                            THEN << ForeignCommit(Snapshot(content, text)) >>
                            ELSE <<>>
    /\ book = NoBook
    /\ queue = <<>>
    /\ arrival = <<>>
    /\ request = [c \in Callers |-> NoReq]
    /\ caller = [c \in Callers |-> "idle"]
    /\ respond = [c \in Callers |-> [state |-> "none", sent |-> <<>>]]
    /\ actor = [pc |-> "setup", req |-> NoReq]
    /\ trace = <<>>
    /\ faults = 0
    /\ loaded = NoLoad
    /\ dir_lock = Unlocked

\* The files the bootstrap branch of init_book writes, in its order.
BootstrapWrites == << BOOK_TOML, GITIGNORE, << README_MD >> >>

BootstrapContent(p) ==
    IF p = BOOK_TOML THEN MDWIKI_BOOK_TOML
    ELSE IF p = GITIGNORE THEN MDWIKI_GITIGNORE
    ELSE MDWIKI_README

\* The program has been started again this many times.
Restarts == Len(SelectSeq(trace, LAMBDA e : e.ev = "started"))

\* WikiState::setup: init_book, get_book and the initial build.  init_book
\* bootstraps a book where none loads (directories, book.toml, .gitignore,
\* README.md, the navigation document, the initial commit on the head there
\* is) and then adds the theme script where it is missing.  A failed step
\* ends the program and leaves what the steps before it did.
setup ==
    /\ actor.pc = "setup"
    /\ LET bootstrap == ~ book_loads(summary)
           dirs1 == IF bootstrap THEN dirs \cup { <<>>, << <<"images">> >> } ELSE dirs
           wrote(n) == [p \in { BootstrapWrites[i] : i \in 1..n } |-> BootstrapContent(p)]
                       @@ files
           files1 == IF bootstrap THEN wrote(Len(BootstrapWrites)) ELSE files
           text1(rev) == IF bootstrap THEN render_summary(dirs1, DOMAIN files1, rev)
                         ELSE summary
           hist1(rev) == IF bootstrap
                         THEN Append(history,
                                     NewCommit(history, MDWIKI_USER,
                                               Message("Initial mdwiki commit", <<>>),
                                               Snapshot(files1, text1(rev)), 0))
                         ELSE history
           theme == ~ is_file(DOMAIN files1, THEME_PATH)
           dirs2 == IF theme THEN dirs1 \cup { THEME_DIR } ELSE dirs1
           files2 == IF theme THEN (THEME_PATH :> THEME_OVERRIDE_SCRIPT) @@ files1
                     ELSE files1
           Leave(pc, d, f, t, h, b) ==
               /\ dirs' = d
               /\ files' = f
               /\ summary' = t
               /\ history' = h
               /\ book' = b
               /\ actor' = [pc |-> pc, req |-> NoReq]
               /\ trace' = Append(trace, Ev(0, IF pc = "recv" THEN "setup" ELSE "exited"))
       IN  \E rev \in BOOLEAN :
               \/ /\ Leave("recv", dirs2, files2, text1(rev), hist1(rev),
                            Snapshot(files2, text1(rev)))
                  /\ UNCHANGED faults
               \/ /\ Fault
                  /\ \/ /\ bootstrap
                        /\ \E n \in 0..(Len(BootstrapWrites) - 1) :
                               Leave("exited", dirs1, wrote(n), summary, history, book)
                     \/ /\ bootstrap
                        /\ Leave("exited", dirs1, files1, summary, history, book)
                     \/ /\ bootstrap
                        /\ Leave("exited", dirs1, files1, text1(rev), history, book)
                     \/ /\ theme
                        /\ Leave("exited", dirs1, files1, text1(rev), hist1(rev), book)
                     \/ Leave("exited", dirs2, files2, text1(rev), hist1(rev), book)
    /\ UNCHANGED <<queue, arrival, request, caller, respond, loaded, dir_lock>>

\* The program, stopped with nothing in flight, is started again.
Restart ==
    /\ actor.pc \in {"recv", "exited"}
    /\ queue = <<>>
    /\ Restarts < MaxRestarts
    /\ actor' = [pc |-> "setup", req |-> NoReq]
    /\ trace' = Append(trace, Ev(0, "started"))
    /\ UNCHANGED <<dirs, files, summary, history, book, queue, arrival, request,
                   caller, respond, faults, loaded, dir_lock>>

NextBoot ==
    \/ setup
    \/ Restart

SpecBoot == InitBoot /\ [][NextBoot]_vars


\* ------------------------------------------------------------- properties

\* Paths put to the validator: those the handlers submit, and paths that are
\* not simple, lack the extension, are reserved or are nested too deep.
AllPaths ==
    UrlPaths \cup
    { <<>>,
      << ParentDir, <<"page", "md">> >>,
      << RootDir, <<"page", "md">> >>,
      << CurDir, <<"page", "md">> >>,
      << <<"page", "txt">> >>,
      << <<"page">> >>,
      << <<"", "md">> >>,
      << <<"newdir">> >>,
      << <<"index", "md">> >>,
      << <<"newdir">>, <<"SUMMARY", "md">> >>,
      << <<"newdir">>, <<"README", "md">> >>,
      << <<"images">>, <<"page", "md">> >>,
      << <<"a">>, <<"b">>, <<"c">>, <<"d", "md">> >>,
      << <<"a">>, <<"b">>, <<"c">>, <<"d">>, <<"e", "md">> >> }

\* Where x stands in a sequence without repetitions that holds it.
Pos(seq, x) == CHOOSE i \in 1..Len(seq) : seq[i] = x

InSeq(seq, x) == \E i \in 1..Len(seq) : seq[i] = x

\* What the actor has done for request c, in order.
EventsOf(c) ==
    LET mine == SelectSeq(trace, LAMBDA e : e.req = c)
    IN  [i \in 1..Len(mine) |-> mine[i].ev]

Answered(c) == respond[c].state = "sent"

ReplyOf(c) == respond[c].sent[1]

CommitsOf(c) == { i \in 2..Len(history) : history[i].req = c }

\* Every component is a plain name: not "..", not ".", not the root.
SpecSimple(p) == \A i \in 1..Len(p) : p[i] \notin {ParentDir, CurDir, RootDir}

\* The last component ends in ".md" and is more than that extension.
SpecMarkdown(p) ==
    /\ p # <<>>
    /\ Len(Last(p)) >= 2
    /\ Last(Last(p)) = "md"
    /\ Last(p) # <<"", "md">>

\* The final component is a reserved name or the first a reserved prefix.
SpecReserved(p) ==
    /\ p # <<>>
    /\ (Last(p) \in RESERVED_NAMES \/ p[1] \in RESERVED_PREFIXES)

SpecSafe(p) == SpecSimple(p) /\ SpecMarkdown(p) /\ ~ SpecReserved(p)

\* C1: at most one request is being processed at any moment: once the actor
\* has started on a request, nothing it does belongs to another request
\* until the first one has ended (with its reply, or with the actor's end).
C1_OneRequestAtATime ==
    \A i \in 1..(Len(trace) - 1) :
        trace[i].req # trace[i + 1].req
        => /\ trace[i].ev \in {"replied", "panicked"}
           /\ \A k \in 1..i : trace[k].req # trace[i + 1].req

\* A request is in the middle of its stages while another one waits.
C1_Witness ==
    /\ actor.pc = "commit"
    /\ Len(queue) = 1
    /\ queue[1].id # actor.req.id

\* C2: every request the actor has taken from the queue and is done with has
\* had its reply slot fulfilled exactly once, and no slot is fulfilled twice.
C2_AnsweredExactlyOnce ==
    \A c \in Callers :
        /\ Len(respond[c].sent) <= 1
        /\ (/\ InSeq(arrival, c)
            /\ actor.req.id # c
            /\ ~ \E i \in 1..Len(queue) : queue[i].id = c)
           => Len(respond[c].sent) = 1

\* C3: a stage failure after validation becomes one terminal result of its
\* request and the actor keeps running.
C3_FailureStaysInActor ==
    /\ actor.pc # "panicked"
    /\ \A c \in Callers :
           (\E i \in 1..Len(trace) : trace[i] = Ev(c, "failed"))
           => (Answered(c) \/ actor.req.id = c)

\* C4: requests are processed in the order they arrived: everything the actor
\* does for an earlier arrival comes before anything it does for a later one,
\* and no arrival is passed over.
C4_FifoOrder ==
    /\ \A i \in 1..(Len(trace) - 1) :
           Pos(arrival, trace[i].req) <= Pos(arrival, trace[i + 1].req)
    /\ \A n \in 2..Len(arrival) :
           EventsOf(arrival[n]) # <<>>
           => InSeq(EventsOf(arrival[n - 1]), "replied")
    /\ \A i \in 2..(Len(history) - 1) :
           Pos(arrival, history[i].req) < Pos(arrival, history[i + 1].req)

\* Two requests were answered, the later caller's first.
C4_Witness ==
    /\ Len(arrival) >= 2
    /\ arrival[1] > arrival[2]
    /\ Answered(arrival[1])
    /\ Answered(arrival[2])
    /\ trace[1].req = arrival[1]

\* C5 as stated: once the N requests sent so far are all answered, the
\* history holds exactly N new commits, in the order the requests were sent.
C5_OneCommitPerRequest ==
    (\A c \in Callers : InSeq(arrival, c) => Answered(c))
    => /\ Len(history) = 1 + Len(arrival)
       /\ \A i \in 1..Len(arrival) : history[i + 1].req = arrival[i]

\* C5, amended: the history gains one commit for each request whose commit
\* stage succeeded and none for any other; a request answered OK has exactly
\* one, a request answered BadRequest or NotFound has none; the commits stand
\* in the order the requests were sent.
C5_CommitsFollowArrival ==
    /\ \A i, j \in 2..Len(history) :
           i < j => Pos(arrival, history[i].req) < Pos(arrival, history[j].req)
    /\ \A c \in Callers :
           /\ Cardinality(CommitsOf(c)) <= 1
           /\ CommitsOf(c) # {} <=> InSeq(EventsOf(c), "committed")
           /\ Answered(c) /\ ReplyOf(c).kind = "OK"
                  => Cardinality(CommitsOf(c)) = 1
           /\ Answered(c) /\ ReplyOf(c).kind \in {"BadRequest", "NotFound"}
                  => CommitsOf(c) = {}

\* Of two answered requests one was refused and one committed.
C5_Witness ==
    /\ Len(arrival) = 2
    /\ Answered(arrival[1]) /\ Answered(arrival[2])
    /\ ReplyOf(arrival[1]).kind = "NotFound"
    /\ ReplyOf(arrival[2]).kind = "OK"
    /\ Len(history) = 2

\* Two paths that cannot both be created: one lies under the other, or one is
\* the index file of a directory above the other.
PathsConflict(pa, pb) ==
    \/ starts_with(pa, pb)
    \/ starts_with(pb, pa)
    \/ \E i \in 1..Len(AncestorDirs(pa)) : pb = AncestorDirs(pa)[i] \o <<README_MD>>
    \/ \E i \in 1..Len(AncestorDirs(pb)) : pa = AncestorDirs(pb)[i] \o <<README_MD>>

\* The first two arrivals are CreateFile requests for distinct paths, each
\* valid on the fresh wiki; both are answered and nothing in the environment
\* has failed.
TwoCreates(a, b) ==
    /\ Len(arrival) >= 2
    /\ arrival[1] = a /\ arrival[2] = b
    /\ request[a].kind = "CreateFile" /\ request[b].kind = "CreateFile"
    /\ request[a].file # request[b].file
    /\ is_ok(can_create(DOMAIN InitFiles, request[a].file))
    /\ is_ok(can_create(DOMAIN InitFiles, request[b].file))
    /\ Answered(a) /\ Answered(b)
    /\ faults = 0

\* Both replied OK; each has its own commit, a's before b's; a's commit holds
\* a's page and not b's, b's commit holds both.
TwoSeparateCommits(a, b) ==
    /\ ReplyOf(a) = OK(None) /\ ReplyOf(b) = OK(None)
    /\ Len(history) >= 3
    /\ CommitsOf(a) = {2} /\ CommitsOf(b) = {3}
    /\ history[2].message = Message("Create", request[a].file)
    /\ history[3].message = Message("Create", request[b].file)
    /\ request[a].file \in DOMAIN history[2].tree.files
    /\ request[b].file \notin DOMAIN history[2].tree.files
    /\ history[3].tree.files[request[a].file] = request[a].content
    /\ history[3].tree.files[request[b].file] = request[b].content

\* C6 as stated: two CreatePage requests for distinct valid paths both reply
\* OK and the history gains two separate commits in the order of the requests.
C6_TwoCreatesBothSucceed ==
    \A a, b \in Callers : TwoCreates(a, b) => TwoSeparateCommits(a, b)

\* C6, amended: the same for two paths that do not conflict (neither lies
\* under the other, neither is the index file of a directory above the
\* other), when no filesystem, repository or build operation fails.
C6_TwoCompatibleCreates ==
    \A a, b \in Callers :
        (TwoCreates(a, b) /\ ~ PathsConflict(request[a].file, request[b].file))
        => TwoSeparateCommits(a, b)

\* Two creates, the later caller's first, both answered OK.
C6_Witness ==
    /\ TwoCreates(2, 1)
    /\ ~ PathsConflict(request[1].file, request[2].file)
    /\ ReplyOf(1) = OK(None) /\ ReplyOf(2) = OK(None)
    /\ Len(history) = 3

SpecCanCreate(fileset, p) ==
    /\ SpecSafe(p)
    /\ Len(p) < MaxAncestors
    /\ p \notin fileset

\* C7: in every state of the content root and for every path, can_create is
\* OK exactly when the path is simple, has the .md extension, is not
\* reserved, is at most four components deep and no file exists at it; the
\* actor goes on to create directories only for such a path.
C7_CanCreateIff ==
    /\ \A p \in AllPaths :
           is_ok(can_create(DOMAIN files, p)) <=> SpecCanCreate(DOMAIN files, p)
    /\ actor.pc = "create_dirs" => SpecCanCreate(DOMAIN files, actor.req.file)

\* A create passed validation on a content root that holds created pages.
C7_Witness ==
    /\ actor.pc = "create_dirs"
    /\ \E p \in DOMAIN files : p # << README_MD >>
    /\ \E p \in AllPaths : SpecSafe(p) /\ p \in DOMAIN files
    /\ \E p \in AllPaths : SpecSafe(p) /\ Len(p) = MaxAncestors

SpecCanEdit(fileset, p) == SpecSafe(p) /\ p \in fileset

\* C8: in every state of the content root and for every path, can_edit is OK
\* exactly when the path is simple, has the .md extension, is not reserved
\* and a file exists at it; on the fresh wiki README.md is editable and no
\* other page is; the actor overwrites only such a path.
C8_CanEditIff ==
    /\ \A p \in AllPaths :
           is_ok(can_edit(DOMAIN files, p)) <=> SpecCanEdit(DOMAIN files, p)
    /\ files = InitFiles
           => /\ is_ok(can_edit(DOMAIN files, << README_MD >>))
              /\ \A p \in AllPaths \ { << README_MD >> } :
                     ~ is_ok(can_edit(DOMAIN files, p))
    /\ (actor.pc = "write" /\ actor.req.kind = "EditFile")
           => SpecCanEdit(DOMAIN files, actor.req.file)

\* An edit of a page a request created passed validation.
C8_Witness ==
    /\ actor.pc = "write"
    /\ actor.req.kind = "EditFile"
    /\ actor.req.file # << README_MD >>


NewDirPage == << <<"newdir">>, <<"page", "md">> >>

NewPage == << <<"new">>, <<"page", "md">> >>

\* Request c, a CreateFile, was the first to arrive and has been answered, and
\* the actor has not started on anything else: the state its processing left.
FirstCreateDone(c) ==
    /\ Len(arrival) >= 1
    /\ arrival[1] = c
    /\ request[c].kind = "CreateFile"
    /\ Answered(c)
    /\ \A i \in 1..Len(trace) : trace[i].req = c

\* What a successful CreateFile of dir/page.md leaves on the fresh wiki: the
\* page, the directory with a placeholder index, the navigation document
\* with both entries, one commit by the request's user, and the book
\* rebuilt from all of it.
CreatedUnder(c, dir) ==
    LET page == << dir, <<"page", "md">> >>
        index == << dir, README_MD >>
        expected == (page :> request[c].content) @@ (index :> (<<"# ">> \o dir))
                    @@ InitFiles
        navigation == << HeadBlock,
                         Entry(0, dir, index),
                         Entry(2, <<"page">>, page) >>
    IN  /\ ReplyOf(c) = OK(None)
        /\ files = expected
        /\ dirs = InitDirs \cup { << dir >> }
        /\ summary = navigation
        /\ Len(history) = 2
        /\ history[2] = [author |-> request[c].user, email |-> SERVICE_EMAIL,
                         message |-> Message("Create", page), parent |-> 1,
                         tree |-> Snapshot(expected, navigation), req |-> c]
        /\ book = Snapshot(expected, navigation)
        /\ EventsOf(c)[Len(EventsOf(c)) - 1] = "rebuilt"

\* C9 as stated: CreatePage("new/page.md", "Hello") on the fresh wiki replies
\* OK and leaves the page, a synthesized index, a navigation entry labeled
\* "page", one new commit and a rebuilt book.
C9_CreateUnderNew ==
    \A c \in Callers :
        (FirstCreateDone(c) /\ request[c].file = NewPage)
        => CreatedUnder(c, <<"new">>)

\* C9, amended: "new" is a reserved prefix, so CreatePage("new/page.md", ..)
\* is answered BadRequest with a message and changes nothing.  For the
\* directory newdir, which is not reserved, CreatePage("newdir/page.md",
\* "Hello") on the fresh wiki replies OK when no stage fails, and an OK reply
\* comes with all the effects listed.
C9_CreateInNewDirectory ==
    \A c \in Callers :
        /\ (FirstCreateDone(c) /\ request[c].file = NewPage)
           => /\ ReplyOf(c).kind = "BadRequest"
              /\ ReplyOf(c).msg # None
              /\ files = InitFiles /\ dirs = InitDirs
              /\ summary = << HeadBlock >>
              /\ Len(history) = 1
              /\ book = Snapshot(InitFiles, << HeadBlock >>)
        /\ (FirstCreateDone(c) /\ request[c].file = NewDirPage)
           => /\ faults = 0 => ReplyOf(c) = OK(None)
              /\ ReplyOf(c) = OK(None) => CreatedUnder(c, <<"newdir">>)

\* CreatePage("newdir/page.md", "Hello") was answered OK on the fresh wiki.
C9_Witness ==
    /\ FirstCreateDone(1)
    /\ request[1].file = NewDirPage
    /\ request[1].content = <<"Hello">>
    /\ ReplyOf(1) = OK(None)

\* The actor holds an EditFile request for a safe path at which no file
\* exists, and is about to validate it.
EditOfMissing ==
    /\ actor.pc = "validate"
    /\ actor.req.kind = "EditFile"
    /\ SpecSafe(actor.req.file)
    /\ actor.req.file \notin DOMAIN files

\* C10: the actor's step on an EditFile request for a safe path without a
\* file answers it NotFound and ends it there; no file or directory is
\* written, the navigation document, the history and the book stay as they
\* are; and a request answered NotFound never has a later stage or a commit.
C10_EditOfMissingPage ==
    [][ /\ (EditOfMissing /\ actor' # actor)
           => /\ respond'[actor.req.id].sent = << NotFound(Some("no file named")) >>
              /\ actor' = [pc |-> "recv", req |-> NoReq]
              /\ trace' = trace \o << Ev(actor.req.id, "rejected"),
                                      Ev(actor.req.id, "replied") >>
              /\ UNCHANGED <<dirs, files, summary, history, book>>
        /\ \A c \in Callers :
               (respond'[c].state = "sent" /\ respond'[c].sent[1].kind = "NotFound")
               => /\ SelectSeq(trace', LAMBDA e : e.req = c)
                       = << Ev(c, "received"), Ev(c, "rejected"), Ev(c, "replied") >>
                  /\ \A i \in 1..Len(history') : history'[i].req # c
      ]_vars

\* An edit of a page that does not exist was answered NotFound, with one
\* other request committed.
C10_Witness ==
    \E c \in Callers :
        /\ request[c].kind = "EditFile"
        /\ Answered(c)
        /\ ReplyOf(c).kind = "NotFound"
        /\ request[c].file \notin DOMAIN files
        /\ Len(history) = 2

\* The actor holds a CreateFile request for a path at which a file exists,
\* and is about to validate it.
CreateOfExisting ==
    /\ actor.pc = "validate"
    /\ actor.req.kind = "CreateFile"
    /\ actor.req.file \in DOMAIN files

\* C11: the actor's step on a CreateFile request for a path at which a file
\* exists answers it BadRequest with a message and ends it there: no
\* directory or index file is created, the existing file keeps its content,
\* and the navigation document, the history and the book stay as they are.
C11_CreateOfExistingPage ==
    [][ (CreateOfExisting /\ actor' # actor)
        => /\ Len(respond'[actor.req.id].sent) = 1
           /\ respond'[actor.req.id].sent[1].kind = "BadRequest"
           /\ respond'[actor.req.id].sent[1].msg # None
           /\ actor' = [pc |-> "recv", req |-> NoReq]
           /\ trace' = trace \o << Ev(actor.req.id, "rejected"),
                                   Ev(actor.req.id, "replied") >>
           /\ files'[actor.req.file] = files[actor.req.file]
           /\ UNCHANGED <<dirs, files, summary, history, book>>
      ]_vars

\* A create of a page that an earlier request created, with another content,
\* was answered BadRequest and the page still holds the first content.
C11_Witness ==
    \E c, d \in Callers :
        /\ c # d
        /\ request[c].kind = "CreateFile" /\ request[d].kind = "CreateFile"
        /\ request[c].file = request[d].file
        /\ request[c].file # << README_MD >>
        /\ Answered(c) /\ ReplyOf(c) = OK(None)
        /\ Answered(d) /\ ReplyOf(d).kind = "BadRequest"
        /\ files[request[c].file] = request[c].content
        /\ request[d].content # request[c].content
        /\ Len(history) = 2

\* Request c is the one the actor has just answered, and it answered OK.
JustSucceeded(c) ==
    /\ actor.pc = "recv"
    /\ trace # <<>>
    /\ Last(trace) = Ev(c, "replied")
    /\ ReplyOf(c) = OK(None)

\* C12: right after a request, CreateFile or EditFile, was answered OK, the
\* navigation document is the rendering of a scan of the content tree as it
\* stands, so it lists what earlier failed requests left there as well.
C12_NavigationRecomputed ==
    \A c \in Callers :
        JustSucceeded(c) => summary = render_summary(dirs, DOMAIN files, FALSE)

\* The stages of an answered request, in the actor's order, are exactly these.
StagesAre(c, stages) == EventsOf(c) = stages

\* C13: a request answered OK has exactly one commit; the commit was made
\* after the content file was written and holds that content, the rebuild
\* came after the commit, and the reply came after the rebuild had succeeded.
C13_CommitBetweenWriteAndRebuild ==
    \A c \in Callers :
        (Answered(c) /\ ReplyOf(c).kind = "OK")
        => /\ Cardinality(CommitsOf(c)) = 1
           /\ \A k \in CommitsOf(c) :
                  /\ request[c].file \in DOMAIN history[k].tree.files
                  /\ history[k].tree.files[request[c].file] = request[c].content
           /\ IF request[c].kind = "CreateFile"
              THEN StagesAre(c, <<"received", "validated", "dirs", "index",
                                  "written", "summary", "opened", "committed",
                                  "rebuilt", "replied">>)
              ELSE StagesAre(c, <<"received", "validated", "written", "opened",
                                  "committed", "rebuilt", "replied">>)

\* A create and an edit were both answered OK.
C13_Witness ==
    \E c, d \in Callers :
        /\ request[c].kind = "CreateFile" /\ request[d].kind = "EditFile"
        /\ Answered(c) /\ ReplyOf(c) = OK(None)
        /\ Answered(d) /\ ReplyOf(d) = OK(None)
        /\ Len(history) = 3

\* A stage of request c failed after its validation had passed.
StageFailed(c) == InSeq(EventsOf(c), "failed") \/ InSeq(EventsOf(c), "panicked")

\* C14: when a stage of a request fails after validation, the failure is the
\* last stage of that request, and the request is answered Error.
C14_FailureShortCircuits ==
    \A c \in Callers :
        StageFailed(c)
        => LET ev == EventsOf(c)
           IN  /\ Answered(c)
               /\ ReplyOf(c).kind = "Error"
               /\ ev[Len(ev)] = "replied"
               /\ ev[Len(ev) - 1] = "failed"
               /\ \A i \in 1..(Len(ev) - 2) : ev[i] # "failed"

\* The step the actor takes ends the request in hand with a failure.
FailingStep ==
    /\ actor.req # NoReq
    /\ Len(trace') > Len(trace)
    /\ trace'[Len(trace) + 1].ev \in {"failed", "panicked"}

\* What the stages of the request in hand that precede the commit have put on
\* the working tree: the content, and for a create the ancestor directories
\* each with an index file.
WrittenByRequest(dirset, fs) ==
    /\ actor.req.file \in DOMAIN fs
    /\ fs[actor.req.file] = actor.req.content
    /\ actor.req.kind = "CreateFile"
       => \A i \in 1..Len(actor.req.file) :
              /\ AncestorDirs(actor.req.file)[i] \in dirset
              /\ (AncestorDirs(actor.req.file)[i] \o <<README_MD>>) \in DOMAIN fs

\* C15: no failing step takes anything off the working tree; and when the
\* commit or the rebuild fails, the request is answered Error while the
\* content it wrote, the directories it needed and their index files are on
\* the working tree as they were before the failure.
C15_NoRollback ==
    [][ /\ FailingStep
           => /\ dirs \subseteq dirs'
              /\ \A p \in DOMAIN files : p \in DOMAIN files' /\ files'[p] = files[p]
        /\ (FailingStep /\ actor.pc \in {"commit", "build"})
           => /\ respond'[actor.req.id].sent = << Error(None) >>
              /\ WrittenByRequest(dirs, files)
              /\ WrittenByRequest(dirs', files')
              /\ UNCHANGED <<dirs, files, summary>>
      ]_vars

\* The commit of a create in a new directory failed: the request was answered
\* Error, and its page, directory and index file are on the working tree.
C15_Witness ==
    \E c \in Callers :
        /\ request[c].file = NewDirPage
        /\ request[c].kind = "CreateFile"
        /\ EventsOf(c) = <<"received", "validated", "dirs", "index", "written",
                           "summary", "opened", "failed", "replied">>
        /\ ReplyOf(c) = Error(None)
        /\ NewDirPage \in DOMAIN files
        /\ files[NewDirPage] = request[c].content
        /\ << <<"newdir">>, README_MD >> \in DOMAIN files
        /\ Len(history) = 1

\* C16: a request answered Error was answered Error with no message,
\* whichever stage failed, and its handler shows the one generic text; so
\* the replies to two failures with different causes are the same.
C16_ErrorCarriesNoMessage ==
    \A c \in Callers :
        (Answered(c) /\ ReplyOf(c).kind = "Error")
        => /\ ReplyOf(c).msg = None
           /\ shown_message(ReplyOf(c)) = "Something went wrong :("
           /\ InSeq(EventsOf(c), "failed")
           /\ \A d \in Callers :
                  (Answered(d) /\ ReplyOf(d).kind = "Error")
                  => ReplyOf(d) = ReplyOf(c)

\* Two requests failed in different stages and both were answered Error.
C16_Witness ==
    \E c, d \in Callers :
        /\ Answered(c) /\ ReplyOf(c).kind = "Error"
        /\ Answered(d) /\ ReplyOf(d).kind = "Error"
        /\ Len(EventsOf(c)) < Len(EventsOf(d))

\* C17: the channel never holds more than 100 requests; while it holds 100
\* no request is enqueued and no handler that has not enqueued moves; a
\* request that is enqueued goes to the back, behind everything queued, which
\* stays as it was; and the actor takes the request at the front.
C17_BoundedQueueBlocks ==
    [][ /\ Len(queue) <= 100 /\ Len(queue') <= 100
        /\ Len(queue) = 100
           => /\ arrival' = arrival
              /\ \A c \in Callers : caller[c] = "idle" => caller'[c] = "idle"
        /\ arrival' # arrival
           => \E c \in Callers :
                  /\ caller[c] = "idle" /\ caller'[c] = "waiting"
                  /\ arrival' = Append(arrival, c)
                  /\ queue' = Append(queue, request'[c])
        /\ actor'.pc = "validate" /\ actor.pc = "recv"
           => /\ actor'.req = Head(queue)
              /\ queue' = Tail(queue)
      ]_vars

\* A handler that found the channel full has enqueued after the actor took a
\* request: its request is the last of a channel that is full again, behind
\* the 99 that were queued before it.
C17_Witness ==
    \E c \in Callers :
        /\ Len(queue) = ChannelCapacity
        /\ queue[ChannelCapacity] = request[c]
        /\ request[c] # NoReq
        /\ arrival[ChannelCapacity + 1] = c
        /\ \A i \in 1..(ChannelCapacity - 1) : queue[i] = BackgroundRequest(i + 1)
        /\ \E d \in Callers : caller[d] = "idle"

\* C18: no step, of a request that succeeds or of one that fails, takes a
\* directory or a file off the content root.
C18_NothingDeleted ==
    [][ /\ dirs \subseteq dirs'
        /\ (DOMAIN files) \subseteq (DOMAIN files')
      ]_vars

\* After one request that failed and one that succeeded the content root
\* holds more directories and files than setup left.
C18_Witness ==
    \E c, d \in Callers :
        /\ Answered(c) /\ ReplyOf(c).kind = "Error"
        /\ Answered(d) /\ ReplyOf(d).kind = "OK"
        /\ Cardinality(dirs) > Cardinality(InitDirs)
        /\ Cardinality(DOMAIN files) > Cardinality(DOMAIN InitFiles) + 1

\* C19: at the moment a request was answered OK, the file at its path holds
\* exactly its content, and the book was built, after that write, from the
\* content root as it stands, so the page the book holds is that content.
C19_ReplyAfterVisible ==
    \A c \in Callers :
        JustSucceeded(c)
        => /\ request[c].file \in DOMAIN files
           /\ files[request[c].file] = request[c].content
           /\ book = Snapshot(files, summary)
           /\ book.files[request[c].file] = request[c].content
           /\ LET ev == EventsOf(c)
              IN  /\ InSeq(ev, "written") /\ InSeq(ev, "rebuilt")
                  /\ Pos(ev, "written") < Pos(ev, "rebuilt")
                  /\ Pos(ev, "rebuilt") + 1 = Pos(ev, "replied")

\* An edit of a page that another request created was just answered OK, and
\* the page holds the edit's content, not the create's.
C19_Witness ==
    \E c, d \in Callers :
        /\ JustSucceeded(d)
        /\ request[d].kind = "EditFile"
        /\ request[c].kind = "CreateFile"
        /\ request[c].file = request[d].file
        /\ Answered(c) /\ ReplyOf(c) = OK(None)
        /\ request[c].content # request[d].content
        /\ book.files[request[d].file] = request[d].content

\* The ancestor directories of the file of the request in hand, the content
\* root among them.
AncestorsInHand ==
    { AncestorDirs(actor.req.file)[i] : i \in 1..Len(actor.req.file) }

\* The placeholder for directory d: a heading with the directory's name, less
\* its extension if it has one.
SpecPlaceholder(d) ==
    <<"# ">> \o (IF Len(Last(d)) = 1 THEN Last(d) ELSE Front(Last(d)))

\* C20: in a create, the directory stage leaves every ancestor directory of
\* the path in place, adding the missing ones; the index stage gives every
\* ancestor directory without an index file a placeholder titled from the
\* directory's name and changes no other file; no later stage of the request
\* changes a file other than the page; and when the request is answered OK
\* the page holds the request's content under its directories and indexes.
C20_CreateEffects ==
    [][ /\ (actor.pc = "create_dirs" /\ actor'.pc = "index")
           => /\ dirs' = dirs \cup AncestorsInHand
              /\ UNCHANGED files
        /\ (actor.pc = "index" /\ actor'.pc = "write")
           => /\ \A d \in AncestorsInHand :
                     /\ (d \o <<README_MD>>) \in DOMAIN files'
                     /\ files'[d \o <<README_MD>>]
                            = IF (d \o <<README_MD>>) \in DOMAIN files
                              THEN files[d \o <<README_MD>>]
                              ELSE SpecPlaceholder(d)
              /\ \A p \in DOMAIN files' :
                     p \in DOMAIN files \/ \E d \in AncestorsInHand : p = d \o <<README_MD>>
              /\ \A p \in DOMAIN files : files'[p] = files[p]
              /\ UNCHANGED dirs
        /\ (actor.req.kind = "CreateFile"
            /\ actor.pc \in {"write", "update_summary", "get_book", "commit", "build"})
           => /\ UNCHANGED dirs
              /\ \A p \in DOMAIN files' :
                     p # actor.req.file => p \in DOMAIN files /\ files'[p] = files[p]
        /\ (actor.req.kind = "CreateFile" /\ actor.pc = "build"
            /\ respond'[actor.req.id].sent = << OK(None) >>)
           => /\ files'[actor.req.file] = actor.req.content
              /\ AncestorsInHand \subseteq dirs'
              /\ \A d \in AncestorsInHand : (d \o <<README_MD>>) \in DOMAIN files'
      ]_vars

\* A create two directories deep, under a directory whose name has an
\* extension, was answered OK: the directory has its placeholder, and the
\* index of the content root is the one setup wrote.
C20_Witness ==
    \E c \in Callers :
        /\ request[c].kind = "CreateFile"
        /\ request[c].file = << <<"my_page", "md">>, <<"sub", "md">> >>
        /\ Answered(c) /\ ReplyOf(c) = OK(None)
        /\ files[<< <<"my_page", "md">>, README_MD >>] = <<"# ", "my_page">>
        /\ files[<< README_MD >>] = MDWIKI_README
        /\ files[request[c].file] = request[c].content

\* ------------------------------------------------- the tree and the document

\* The tree a scan of the content root gives when the filesystem hands out
\* directory entries in the order rev stands for.
ScannedTree(rev) == get_wiki_tree(dirs, DOMAIN files, rev)

\* The wiki has just been set up from a directory without a book: the
\* navigation document in place is the one init_book rendered.
JustBootstrapped ==
    /\ trace # <<>>
    /\ Last(trace) = Ev(0, "setup")
    /\ Len(history) > 0
    /\ Last(history).message = Message("Initial mdwiki commit", <<>>)

RECURSIVE SortedAtEveryLevel(_)
\* Siblings lie in one directory, so their relative paths compare as the
\* bytes of their names do.
SortedAtEveryLevel(node) ==
    /\ \A i \in 1..(Len(node.children) - 1) :
           /\ Front(node.children[i].path) = Front(node.children[i + 1].path)
           /\ NameRank(Last(node.children[i].path))
                  < NameRank(Last(node.children[i + 1].path))
    /\ \A i \in 1..Len(node.children) : SortedAtEveryLevel(node.children[i])

\* C21: in the tree the scan of a bootstrap produced, the children of every
\* directory node are in ascending byte-wise order of their relative paths,
\* at every level, whatever order the filesystem enumerated them in.
C21_ChildrenSorted ==
    JustBootstrapped => \A rev \in BOOLEAN : SortedAtEveryLevel(ScannedTree(rev))

\* C21 witness: a wiki bootstrapped on a/a.md, a/b.md and c.md: the root and
\* directory a both have several children.
C21_Witness ==
    /\ JustBootstrapped
    /\ { << <<"a">>, <<"a", "md">> >>, << <<"a">>, <<"b", "md">> >>,
         << <<"c", "md">> >> } \subseteq DOMAIN files
    /\ Len(ScannedTree(TRUE).children) >= 2
    /\ \E i \in 1..Len(ScannedTree(TRUE).children) :
           Len(ScannedTree(TRUE).children[i].children) >= 2

\* The line at position i of the document is the line of a directory.
IsDirectoryLine(doc, i) ==
    /\ doc[i].kind = "entry"
    /\ Last(doc[i].link) = README_MD

\* The line at position j of the document links to something inside dir.
LinksInto(doc, j, dir) ==
    /\ doc[j].kind = "entry"
    /\ Len(doc[j].link) > Len(dir)
    /\ SubSeq(doc[j].link, 1, Len(dir)) = dir

\* Where the document links to the page.
LineOf(doc, page) == CHOOSE i \in 1..Len(doc) : doc[i].link = page

\* Every directory line is directly followed by the lines of everything
\* inside the directory, and nothing inside it is listed anywhere else.
PreOrder(doc) ==
    \A i \in 1..Len(doc) :
        IsDirectoryLine(doc, i) =>
            LET dir == Front(doc[i].link)
            IN  \A j \in (1..Len(doc)) \ {i} :
                    LinksInto(doc, j, dir) =>
                        /\ j > i
                        /\ \A k \in (i + 1)..j : LinksInto(doc, k, dir)

C22_Pages ==
    << << <<"a">>, <<"a", "md">> >>, << <<"a">>, <<"b", "md">> >>, << <<"c", "md">> >> >>

\* C22: the navigation document is a pre-order serialization of the tree: a
\* directory's line comes first, then the lines of all its descendants, then
\* its next sibling; with a/a.md, a/b.md and c.md it lists a/a.md, then
\* a/b.md, then c.md.
C22_PreOrderDocument ==
    book_loads(summary) =>
        /\ summary[1] = HeadBlock
        /\ PreOrder(summary)
        /\ (\A n \in 1..3 : C22_Pages[n] \in DOMAIN files) =>
               /\ \A n \in 1..3 : \E i \in 1..Len(summary) : summary[i].link = C22_Pages[n]
               /\ LineOf(summary, << <<"a">>, README_MD >>) < LineOf(summary, C22_Pages[1])
               /\ LineOf(summary, C22_Pages[1]) < LineOf(summary, C22_Pages[2])
               /\ LineOf(summary, C22_Pages[2]) < LineOf(summary, C22_Pages[3])

\* C22 witness: a wiki bootstrapped on a/a.md, a/b.md and c.md, with all
\* three in its navigation document.
C22_Witness ==
    /\ JustBootstrapped
    /\ \A n \in 1..3 : C22_Pages[n] \in DOMAIN files
    /\ \A n \in 1..3 : \E i \in 1..Len(summary) : summary[i].link = C22_Pages[n]

\* The paths of the nodes of a tree, the root's own aside.
RECURSIVE NodePaths(_)
NodePaths(node) ==
    UNION { {node.children[i].path} \cup NodePaths(node.children[i]) :
            i \in 1..Len(node.children) }

\* The path is the assets directory or lies under it.
UnderImages(p) == p # <<>> /\ p[1] = <<"images">>

\* C23: nothing under the assets directory images, whatever its extension,
\* appears in the scanned tree or in the navigation document, and neither
\* does the assets directory itself.
C23_AssetsExcluded ==
    /\ JustBootstrapped =>
           \A rev \in BOOLEAN : \A p \in NodePaths(ScannedTree(rev)) : ~ UnderImages(p)
    /\ \A i \in 1..Len(summary) : ~ UnderImages(summary[i].link)

\* C23 witness: a wiki bootstrapped on a directory whose images directory
\* holds a markdown file and a picture, next to a page that is listed.
C23_Witness ==
    /\ JustBootstrapped
    /\ << <<"images">>, <<"page", "md">> >> \in DOMAIN files
    /\ << <<"images">>, <<"pic", "png">> >> \in DOMAIN files
    /\ \E i \in 1..Len(summary) : summary[i].link = << <<"c", "md">> >>

C25_CommitAttribution ==
    \A i \in 1..Len(history) :
        history[i].req # 0 =>
            LET req == request[history[i].req]
            IN  /\ history[i].author = req.user
                /\ history[i].author = UserOf(history[i].req)
                /\ history[i].email = "mdwiki@example.com"
                /\ history[i].message =
                       [verb |-> IF req.kind = "CreateFile" THEN "Create" ELSE "Edit",
                        file |-> req.file]

\* C25 witness: the history holds a commit of a create by one user and a
\* commit of an edit by another.
C25_Witness ==
    \E i, j \in 1..Len(history) :
        /\ history[i].req # 0
        /\ history[j].req # 0
        /\ history[i].message.verb = "Create"
        /\ history[j].message.verb = "Edit"
        /\ history[i].author # history[j].author

\* C26: the history is one linear chain: a step that commits keeps the
\* commits there are and adds one, whose only parent is the head of that
\* moment and which is the head from then on; a commit has no parent only
\* when there was no head, so only the very first has none.
C26_LinearHistory ==
    [][ history' # history =>
            /\ Len(history') = Len(history) + 1
            /\ SubSeq(history', 1, Len(history)) = history
            /\ Last(history').parent = Len(history)
            /\ \A i \in 1..Len(history') : history'[i].parent = i - 1
      ]_vars

\* C26 witness: two requests have committed on top of the bootstrap commit.
C26_Witness ==
    /\ Len(history) = 3
    /\ history[1].parent = 0
    /\ history[3].parent = 2

\* ----------------------------------------------------------- initialization

\* A run of setup has gone through before.
SetUpBefore == InSeq(trace, Ev(0, "setup"))

\* The step is a run of setup, whatever its outcome.
SetupStep == actor.pc = "setup" /\ actor'.pc # "setup"

\* The step adds no commit and leaves every file there is as it is.
OpensWithoutModification ==
    /\ history' = history
    /\ summary' = summary
    /\ \A p \in DOMAIN files : p \in DOMAIN files' /\ files'[p] = files[p]

\* C27 as stated: where a history exists, initialization adds no commit and
\* rewrites no file, and a second initialization changes nothing.
C27_OpensExistingHistory ==
    [][ SetupStep =>
            /\ history # <<>> => OpensWithoutModification
            /\ SetUpBefore => UNCHANGED <<dirs, files, summary, history, book>>
      ]_vars

\* C27, amended: where a book exists (MDBook::load finds src/SUMMARY.md),
\* initialization adds no commit and rewrites no file, adding at most the
\* theme script where it is missing; and an initialization after one that
\* went through changes neither the history nor the working tree.
C27_OpensExistingBook ==
    [][ SetupStep =>
            /\ book_loads(summary) =>
                   /\ OpensWithoutModification
                   /\ (DOMAIN files') \ (DOMAIN files) \subseteq {THEME_PATH}
            /\ SetUpBefore => UNCHANGED <<dirs, files, summary, history, book>>
      ]_vars

\* C27 witness: setup went through on a directory with a history and a book
\* that already held pages, the program was started again and setup went
\* through again.
C27_Witness ==
    /\ Len(trace) = 3
    /\ trace[1] = Ev(0, "setup")
    /\ trace[2] = Ev(0, "started")
    /\ trace[3] = Ev(0, "setup")
    /\ Len(history) = 1
    /\ history[1].author = "operator"
    /\ << <<"c", "md">> >> \in DOMAIN files

\* C28: when no history exists, a successful initialization makes exactly one
\* commit, the bootstrap commit, attributed to mdwiki, whose snapshot holds
\* the welcome page, the navigation document, the ignore rules and the theme
\* script.
C28_BootstrapCommit ==
    [][ (SetupStep /\ actor'.pc = "recv" /\ history = <<>>) =>
            /\ Len(history') = 1
            /\ history'[1].author = "mdwiki"
            /\ history'[1].parent = 0
            /\ << README_MD >> \in DOMAIN history'[1].tree.files
            /\ history'[1].tree.files[<< README_MD >>] = MDWIKI_README
            /\ history'[1].tree.summary = summary'
            /\ book_loads(history'[1].tree.summary)
            /\ GITIGNORE \in DOMAIN history'[1].tree.files
            /\ THEME_PATH \in DOMAIN history'[1].tree.files
      ]_vars

\* ----------------------------------------------------------------- readers

\* C29: what a read-only handler gets while the actor works is the state of
\* the last mutation that went through its rebuild: never the content of a
\* mutation that has not committed and rebuilt yet, or that failed.
C29_ReadersSeeRebuiltState ==
    [][ loaded' # loaded =>
            /\ loaded'.file \in DOMAIN book.files
            /\ loaded'.content = Some(book.files[loaded'.file])
      ]_vars

\* --------------------------------------------------------- the scanned files

RECURSIVE FileNodes(_)
\* The paths of the File nodes of a tree, one for each node, in tree order.
FileNodes(node) ==
    LET RECURSIVE Of(_)
        Of(nodes) == IF nodes = <<>> THEN <<>>
                     ELSE FileNodes(nodes[1]) \o Of(Tail(nodes))
    IN  IF node.kind = "File" THEN << node.path >> ELSE Of(node.children)

\* The file lies under the content root src.
UnderSrc(p) == p[1] # ParentDir

\* A page the tree is to hold: a markdown file that is not the index file
\* README.md of its directory, not reserved by name or by top-level prefix,
\* and not under the assets directory.
SpecPage(p) ==
    /\ SpecMarkdown(p)
    /\ Last(p) # <<"README", "md">>
    /\ ~ SpecReserved(p)
    /\ ~ UnderImages(p)

Spaced(piece) == IF piece = "my_page" THEN "my page" ELSE piece

\* A name as a label: every underscore a space.
LabelOfName(name) == [i \in 1..Len(name) |-> Spaced(name[i])]

\* The stem of a name as a label: the name up to its last extension.
LabelOfStem(name) == LabelOfName(IF Len(name) > 1 THEN Front(name) ELSE name)

\* update_summary has just rewritten the navigation document.
JustRendered == trace # <<>> /\ Last(trace).ev = "summary"

\* The links the document is to hold: one for every page and one, to its
\* README.md, for every directory under the content root, the root and the
\* assets directory aside.
LinksDue ==
    { p \in DOMAIN files : UnderSrc(p) /\ SpecPage(p) }
    \cup { d \o << <<"README", "md">> >> :
           d \in { e \in dirs : e # <<>> /\ UnderSrc(e) /\ ~ UnderImages(e) } }

\* The header comes first and only there; every other line is an entry
\* indented by 2 x (depth - 1), and an entry of a file is labeled with the
\* file's stem.
LinesWellFormed ==
    /\ summary[1] = [kind |-> "head", indent |-> 0, title |-> SUMMARY_HEAD, link |-> <<>>]
    /\ \A i \in 2..Len(summary) :
           /\ summary[i].kind = "entry"
           /\ summary[i].link # <<>>
           /\ IF IsDirectoryLine(summary, i)
              THEN summary[i].indent = 2 * (Len(summary[i].link) - 2)
              ELSE /\ summary[i].indent = 2 * (Len(summary[i].link) - 1)
                   /\ summary[i].title = LabelOfStem(Last(summary[i].link))
    /\ JustRendered =>
           /\ { summary[i].link : i \in 2..Len(summary) } = LinksDue
           /\ \A i, j \in 2..Len(summary) : summary[i].link = summary[j].link => i = j

\* C31 as stated: the root gives the header only, every file one line
\* labeled with its stem, every other directory one line to its README.md
\* labeled with the directory's name, underscores as spaces, each line
\* indented by 2 x (depth - 1).
C31_LinesLabeledByName ==
    /\ LinesWellFormed
    /\ \A i \in 2..Len(summary) :
           IsDirectoryLine(summary, i) =>
               summary[i].title = LabelOfName(Last(Front(summary[i].link)))

\* C31, amended: as stated, but the line of a directory is labeled with the
\* stem of the directory's name, the name up to its last extension, as the
\* line of a file is.
C31_LinesLabeledByStem ==
    /\ LinesWellFormed
    /\ \A i \in 2..Len(summary) :
           IsDirectoryLine(summary, i) =>
               summary[i].title = LabelOfStem(Last(Front(summary[i].link)))

\* C31 witness: the document just rendered holds the line of a directory, a
\* line below it indented by two, and a label with a space for an underscore.
C31_Witness ==
    /\ JustRendered
    /\ \E i \in 2..Len(summary) : IsDirectoryLine(summary, i)
    /\ \E i \in 2..Len(summary) : summary[i].indent = 2
    /\ \E i \in 2..Len(summary) : summary[i].title = <<"my page">>

\* ------------------------------------------------- C32: kinds of rejection

\* The message of the first check of safe_path that path fails, in the order
\* simple, extension, reserved; None when it passes all three.
FirstUnsafe(p) ==
    IF ~ SpecSimple(p) THEN Some("must be simple")
    ELSE IF ~ SpecMarkdown(p) THEN Some("needs .md extension")
    ELSE IF SpecReserved(p) THEN Some("reserved")
    ELSE None

\* The same for a create, which goes on to the depth and to the existence.
FirstCreateFailure(fileset, p) ==
    IF FirstUnsafe(p) # None THEN FirstUnsafe(p)
    ELSE IF Len(p) >= MaxAncestors THEN Some("too many nested directories")
    ELSE IF p \in fileset THEN Some("already exists")
    ELSE None

\* The same for an edit, which goes on to the existence only.
FirstEditFailure(fileset, p) ==
    IF FirstUnsafe(p) # None THEN FirstUnsafe(p)
    ELSE IF p \notin fileset THEN Some("no file named")
    ELSE None

\* Paths put to the validator for the kinds of rejection: AllPaths and every
\* file of the book, those beside src (reached through "..") included.
ProbedPaths == AllPaths \cup DOMAIN files

\* The actor rejected request c in validation and answered it.
Rejected(c) == Answered(c) /\ InSeq(EventsOf(c), "rejected")

\* C32: the kind of a rejection is fixed by the first failing check in the
\* order simple, extension, reserved, depth (create only), existence: a
\* create is rejected only with BadRequest; an edit is rejected with
\* BadRequest when the path is not simple, lacks the extension or is reserved,
\* whether the file exists or not, and with NotFound only when the path is
\* safe and no file exists; every BadRequest and NotFound reply has a message.
\* The validators are put to every probed path at each validation step, and
\* every reply the actor sends is looked at.
C32_RejectionKinds ==
    [][ /\ actor.pc = "validate"
           => \A p \in ProbedPaths :
                  LET c == can_create(DOMAIN files, p)
                      e == can_edit(DOMAIN files, p)
                  IN  /\ ~ is_ok(c)
                         => /\ c.kind = "BadRequest"
                            /\ c.msg = FirstCreateFailure(DOMAIN files, p)
                            /\ c.msg # None
                      /\ ~ is_ok(e)
                         => /\ e.kind = (IF SpecSafe(p) THEN "NotFound"
                                         ELSE "BadRequest")
                            /\ e.msg = FirstEditFailure(DOMAIN files, p)
                            /\ e.msg # None
                      /\ e.kind = "NotFound"
                         <=> (SpecSafe(p) /\ p \notin DOMAIN files)
        /\ (actor.pc = "validate" /\ actor'.pc = "recv")
           => LET resp == respond'[actor.req.id].sent[1]
              IN  /\ resp.msg # None
                  /\ actor.req.kind = "CreateFile" => resp.kind = "BadRequest"
                  /\ actor.req.kind = "EditFile"
                     => resp.kind \in {"BadRequest", "NotFound"}
                  /\ resp.kind = "NotFound"
                     => /\ SpecSafe(actor.req.file)
                        /\ actor.req.file \notin DOMAIN files
        /\ \A c \in Callers :
               (respond'[c] # respond[c] /\ respond'[c].state = "sent")
               => (respond'[c].sent[1].kind \in {"BadRequest", "NotFound"}
                   => respond'[c].sent[1].msg # None) ]_vars

\* An edit was answered NotFound and a create BadRequest, while a file exists
\* at a path that is not simple and none at a path without the extension.
C32_Witness ==
    /\ \E c \in Callers :
           /\ Rejected(c) /\ request[c].kind = "EditFile"
           /\ ReplyOf(c).kind = "NotFound"
    /\ \E c \in Callers :
           /\ Rejected(c) /\ request[c].kind = "CreateFile"
           /\ ReplyOf(c).kind = "BadRequest"
    /\ \E p \in ProbedPaths : ~ SpecSimple(p) /\ p \in DOMAIN files
    /\ \E p \in ProbedPaths : SpecSimple(p) /\ ~ SpecMarkdown(p) /\ p \notin DOMAIN files

\* ------------------------------------------------------ C33: depth limit

\* C33: for a simple, markdown, non-reserved path at which no file exists,
\* can_create is OK when the path has at most 4 components (3 directories
\* and the file name) and BadRequest when it has 5 or more; can_edit has no
\* depth limit: it is OK for such a path of any depth at which a file exists.
\* A validation step lets a create go on only with at most 4 components.
C33_DepthLimit ==
    [][ actor.pc = "validate"
        => /\ \A p \in AllPaths :
                  SpecSafe(p)
                  => LET absent == (DOMAIN files) \ {p}
                         present == (DOMAIN files) \cup {p}
                     IN  /\ Len(p) <= 4 => is_ok(can_create(absent, p))
                         /\ Len(p) >= 5
                            => /\ can_create(absent, p).kind = "BadRequest"
                               /\ can_create(absent, p).msg # None
                               /\ can_create(present, p).kind = "BadRequest"
                         /\ is_ok(can_edit(present, p))
           /\ actor'.pc = "create_dirs" => Len(actor.req.file) <= 4 ]_vars

\* The actor validates a create while safe paths of 4 and of 5 components
\* are put to the validators.
C33_Witness ==
    /\ actor.pc = "validate"
    /\ actor.req.kind = "CreateFile"
    /\ SpecSafe(actor.req.file)
    /\ \E p \in AllPaths : SpecSafe(p) /\ Len(p) = 4
    /\ \E p \in AllPaths : SpecSafe(p) /\ Len(p) = 5
    /\ \E p \in AllPaths : SpecSafe(p) /\ Len(p) = 5 /\ p \notin DOMAIN files

\* ---------------------------------------------------- C34: reserved paths

\* The names and prefixes the claim lists.
ListedNames == { <<"SUMMARY", "md">>, <<"index", "md">> }

ListedPrefixes == { <<"new">>, <<"edit">>, <<"upload">>, <<"images">> }

ListedReserved(p) ==
    /\ p # <<>>
    /\ (Last(p) \in ListedNames \/ p[1] \in ListedPrefixes)

\* Pages whose name or directory merely begins with, or holds further in, a
\* reserved word.
NearReserved ==
    { << <<"newfile", "md">> >>,
      << <<"edit", "md">> >>,
      << <<"newdir">>, <<"page", "md">> >>,
      << <<"newdir">>, <<"new">>, <<"page", "md">> >>,
      << <<"index", "md">>, <<"page", "md">> >>,
      << <<"index", "md", "md">> >>,
      << <<"myindex", "md">> >> }

\* Paths put to is_reserved_name.
ReservedProbes ==
    AllPaths \cup NearReserved \cup
    { << <<"new">> >>,
      << <<"SUMMARY", "md">> >>,
      << <<"edit">>, <<"page", "md">> >>,
      << <<"upload">>, <<"page", "md">> >>,
      << <<"images">>, <<"pic", "png">> >>,
      << <<"newdir">>, <<"index", "md">> >>,
      << <<"a">>, <<"b">>, <<"SUMMARY", "md">> >> }

\* C34: a path is reserved exactly when its final component is SUMMARY.md or
\* index.md or its first component is new, edit, upload or images; whole
\* components are compared, so a page whose name merely begins with a
\* reserved prefix (newfile.md) is not reserved and can be created where no
\* file exists.  A validation step lets a create go on only for a path that
\* is not reserved, and answers a reserved simple markdown path BadRequest.
C34_ReservedIff ==
    [][ actor.pc = "validate"
        => /\ \A p \in ReservedProbes :
                  is_reserved_name(p) <=> ListedReserved(p)
           /\ \A p \in NearReserved :
                  /\ ~ is_reserved_name(p)
                  /\ is_ok(can_create((DOMAIN files) \ {p}, p))
           /\ actor'.pc \in {"create_dirs", "write"}
              => ~ ListedReserved(actor.req.file)
           /\ (actor' # actor /\ ListedReserved(actor.req.file)
                   /\ SpecSimple(actor.req.file) /\ SpecMarkdown(actor.req.file))
              => /\ actor'.pc = "recv"
                 /\ respond'[actor.req.id].sent[1] = BadRequest(Some("reserved")) ]_vars

\* A page in a directory whose name begins with a reserved prefix was
\* created, and a create under the reserved prefix itself was rejected.
C34_Witness ==
    /\ << <<"newdir">>, <<"page", "md">> >> \in DOMAIN files
    /\ \E c \in Callers :
           /\ Rejected(c)
           /\ request[c].kind = "CreateFile"
           /\ request[c].file = << <<"new">>, <<"page", "md">> >>
           /\ ReplyOf(c) = BadRequest(Some("reserved"))
    /\ ~ is_reserved_name(<< <<"newfile", "md">> >>)

\* ------------------------------------------ C35: requests are not cancelled

\* The receiver of request c's reply slot is gone.
Closed(c) == respond[c].state = "closed"

\* Every stage of a request of this kind, in the actor's order.
AllStages(kind) ==
    IF kind = "CreateFile"
    THEN <<"received", "validated", "dirs", "index", "written", "summary",
           "opened", "committed", "rebuilt", "replied">>
    ELSE <<"received", "validated", "written", "opened", "committed",
           "rebuilt", "replied">>

\* The step ends the request in hand, request c, with the sending of a reply.
Ends(c) ==
    /\ actor.req.id = c
    /\ trace' # trace
    /\ Last(trace') = Ev(c, "replied")

\* C35: dropping the receiver of a request's reply slot cancels nothing.  The
\* drop changes neither the channel nor anything the actor works on; a
\* request leaves the channel only by the actor taking it up (or with the
\* actor itself, when that panics); a request in hand whose receiver is gone
\* ends short of its last stage only by a rejection in validation or by a
\* failure of the stage it is in, as any request does; the failed delivery
\* of its reply changes nothing, and the actor is back at the top of its
\* loop for the next request.
C35_NeverCancelled ==
    [][ /\ \A c \in Callers :
               (Closed(c)' /\ ~ Closed(c))
               => UNCHANGED <<dirs, files, summary, history, book, queue,
                              arrival, request, actor, trace, faults>>
        /\ queue' # queue
           => \/ \E req \in { request'[c] : c \in Callers } :
                     queue' = Append(queue, req)
              \/ /\ queue # <<>>
                 /\ queue' = Tail(queue)
                 /\ actor' = [pc |-> "validate", req |-> Head(queue)]
              \/ actor'.pc = "panicked"
        /\ \A c \in Callers :
               (Closed(c) /\ Ends(c))
               => /\ actor' = [pc |-> "recv", req |-> NoReq]
                  /\ respond'[c] = respond[c]
                  /\ caller'[c] = caller[c]
                  /\ LET ev == [i \in 1..Len(SelectSeq(trace', LAMBDA e : e.req = c))
                                  |-> SelectSeq(trace', LAMBDA e : e.req = c)[i].ev]
                     IN  \/ /\ ev = AllStages(actor.req.kind)
                            /\ \E k \in 2..Len(history') : history'[k].req = c
                            /\ book' = Snapshot(files', summary')
                         \/ /\ ev = <<"received", "rejected", "replied">>
                            /\ ~ is_ok(validate(DOMAIN files, actor.req))
                         \/ /\ ev[Len(ev) - 1] = "failed"
                            /\ \/ faults' = faults + 1
                               \/ actor.pc \in {"create_dirs", "index", "write"} ]_vars

\* The first request's receiver was dropped while the request was queued or
\* in hand; the request went through every stage and has its commit, and the
\* request after it was answered OK.
C35_Witness ==
    /\ Len(arrival) = 2
    /\ Closed(arrival[1])
    /\ respond[arrival[1]].sent = <<>>
    /\ EventsOf(arrival[1]) = AllStages(request[arrival[1]].kind)
    /\ CommitsOf(arrival[1]) # {}
    /\ Answered(arrival[2])
    /\ ReplyOf(arrival[2]) = OK(None)
    /\ CommitsOf(arrival[2]) # {}

\* ------------------------------------- C36: what failed requests leave behind

\* The files of the working tree that HEAD does not hold as they are.
Uncommitted ==
    { p \in DOMAIN files :
          \/ p \notin DOMAIN Last(history).tree.files
          \/ Last(history).tree.files[p] # files[p] }

\* C36: what a failed request wrote stays on the working tree, uncommitted,
\* after its reply: a failing step adds no commit and takes no file away, and
\* no step at all takes an uncommitted file away.  The next commit the actor
\* makes holds every file of the working tree as it stands, those leftovers
\* included, under the author and the message of the request being committed.
C36_LeftoversCommittedLater ==
    [][ /\ FailingStep
           => /\ history' = history
              /\ \A p \in DOMAIN files : p \in DOMAIN files' /\ files'[p] = files[p]
              /\ \A p \in DOMAIN files' : p \notin DOMAIN files => p \in Uncommitted'
        /\ history' = history
           => \A p \in Uncommitted : p \in DOMAIN files'
        /\ history' # history
           => /\ Len(history') = Len(history) + 1
              /\ SubSeq(history', 1, Len(history)) = history
              /\ LET new == Last(history')
                 IN  /\ new.author = actor.req.user
                     /\ new.message = commit_message(actor.req)
                     /\ new.req = actor.req.id
                     /\ \A p \in Uncommitted :
                            /\ p \in DOMAIN new.tree.files
                            /\ new.tree.files[p] = files[p]
                     /\ new.tree.files = files
              /\ Uncommitted' = {} ]_vars

\* A create in a new directory failed at its content write and left the
\* directory's index file; the next request, for a page outside that
\* directory, was committed, and its commit holds that index file.
C36_Witness ==
    \E c, d \in Callers :
        /\ arrival = <<c, d>>
        /\ request[c].kind = "CreateFile"
        /\ request[c].file = NewDirPage
        /\ EventsOf(c) = <<"received", "validated", "dirs", "index", "failed", "replied">>
        /\ ReplyOf(c) = Error(None)
        /\ NewDirPage \notin DOMAIN files
        /\ Len(request[d].file) = 1
        /\ Len(history) = 2
        /\ history[2].req = d
        /\ history[2].author = UserOf(d)
        /\ history[2].message = commit_message(request[d])
        /\ << <<"newdir">>, README_MD >> \in DOMAIN history[2].tree.files
        /\ << <<"newdir">>, README_MD >> \notin DOMAIN history[1].tree.files

\* ---------------------------------------- C37: creates overwrite nothing

SamePathCreates(a, b) ==
    /\ InSeq(arrival, a) /\ InSeq(arrival, b)
    /\ Pos(arrival, a) < Pos(arrival, b)
    /\ request[a].kind = "CreateFile"
    /\ request[b].kind = "CreateFile"
    /\ request[a].file = request[b].file

\* The step answers request b.
Answers(b) ==
    /\ actor.req.id = b
    /\ respond[b].state = "open"
    /\ respond'[b].state = "sent"

\* C38: of two creates for the same path, the one enqueued first having been
\* answered OK, the second is answered BadRequest (the file already exists)
\* and gets no commit, the first has exactly one, and the file holds the
\* first one's content unless an edit has overwritten it since.  The first
\* is answered before the second, whatever else is in the channel.  When the
\* two are the only requests, the path could be created on the fresh wiki and
\* no stage failed, the first was answered OK and the history gained exactly
\* one commit.
C38_SamePathCreates ==
    [][ \A a, b \in Callers :
         /\ (SamePathCreates(a, b) /\ Answers(b)) => Answered(a)
         /\ (SamePathCreates(a, b) /\ Answered(a) /\ Answers(b))
            => LET file == request[a].file
                   reply == respond'[b].sent[1]
               IN  /\ ReplyOf(a) = OK(None)
                      => /\ reply = BadRequest(Some("already exists"))
                         /\ history' = history
                         /\ Cardinality(CommitsOf(a)) = 1
                         /\ CommitsOf(b) = {}
                         /\ files' = files
                         /\ \/ files[file] = request[a].content
                            \/ \E e \in Callers :
                                   /\ request[e].kind = "EditFile"
                                   /\ request[e].file = file
                                   /\ InSeq(EventsOf(e), "written")
                                   /\ files[file] = request[e].content
                   /\ (/\ arrival = <<a, b>>
                       /\ faults = 0
                       /\ SpecCanCreate(DOMAIN InitFiles, file))
                      => /\ ReplyOf(a) = OK(None)
                         /\ reply.kind = "BadRequest"
                         /\ Len(history') = 2
                         /\ files'[file] = request[a].content ]_vars

\* Two creates for one page in a new directory, with different contents,
\* the later caller's enqueued first: the first was answered OK, the second
\* BadRequest, and the page holds the first one's content.
C38_Witness ==
    /\ arrival = <<2, 1>>
    /\ SamePathCreates(2, 1)
    /\ request[1].file = NewDirPage
    /\ request[1].content # request[2].content
    /\ Answered(1) /\ Answered(2)
    /\ ReplyOf(2) = OK(None)
    /\ ReplyOf(1) = BadRequest(Some("already exists"))
    /\ files[NewDirPage] = request[2].content
    /\ Len(history) = 2
    /\ history[2].req = 2

\* --------------------------------------------- C39: commits and OK replies

\* The requests answered with a reply of this kind.
AnsweredWith(kind) ==
    { c \in Callers : Answered(c) /\ ReplyOf(c).kind = kind }

\* C39 as stated: a request answered with anything but OK has added no
\* commit, and whenever the actor is between two requests the commits it
\* added are as many as the OK replies it sent.
C39_CommitsEqualOkReplies ==
    /\ \A c \in Callers :
           (Answered(c) /\ ReplyOf(c).kind # "OK") => CommitsOf(c) = {}
    /\ actor.pc = "recv"
       => Len(history) - 1 = Cardinality(AnsweredWith("OK"))

\* C39, amended: the step that answers a request answers OK only with exactly
\* one commit of that request on the history, and BadRequest or NotFound only
\* with none; it answers Error with none when a stage up to the commit
\* failed and with the request's commit in place when the rebuild failed.
\* After it, the commits the actor added are as many as the OK replies it
\* sent and the answered requests whose rebuild failed, together.
C39_CommitsAndReplies ==
    [][ \A c \in Callers :
            Answers(c)
            => LET reply == respond'[c].sent[1]
                   mine == { k \in 2..Len(history') : history'[k].req = c }
                   ok == { d \in Callers : /\ respond'[d].state = "sent"
                                           /\ respond'[d].sent[1].kind = "OK" }
                   unbuilt == { d \in Callers :
                                   /\ respond'[d].state = "sent"
                                   /\ respond'[d].sent[1].kind = "Error"
                                   /\ \E k \in 2..Len(history') : history'[k].req = d }
               IN  /\ history' = history
                   /\ reply.kind = "OK" => Cardinality(mine) = 1
                   /\ reply.kind \in {"BadRequest", "NotFound"} => mine = {}
                   /\ reply.kind = "Error"
                      => /\ Cardinality(mine) <= 1
                         /\ mine # {} <=> actor.pc = "build"
                   /\ Len(history') - 1 = Cardinality(ok) + Cardinality(unbuilt)
                   /\ Len(history') - 1 >= Cardinality(ok) ]_vars

\* A create was committed and its rebuild failed: it was answered Error and
\* its commit is on the history, while no request was answered OK.
C39_Witness ==
    \E c \in Callers :
        /\ actor.pc = "recv"
        /\ request[c].kind = "CreateFile"
        /\ Answered(c)
        /\ ReplyOf(c) = Error(None)
        /\ EventsOf(c) = <<"received", "validated", "dirs", "index", "written",
                           "summary", "opened", "committed", "failed", "replied">>
        /\ Cardinality(CommitsOf(c)) = 1
        /\ AnsweredWith("OK") = {}
        /\ Len(history) = 2

\* ------------------------------------------ C40: the lock-based section

\* Handler invocation c is inside the block that writes the page, updates the
\* navigation document, commits and rebuilds.
InSection(c) == caller[c] \in {"write", "update_summary", "commit", "build"}

\* C40: in the lock-based handlers the section that writes the page, updates
\* the navigation document, commits and rebuilds is mutually exclusive: no
\* two handler invocations are inside it at the same time.
C40_SectionExclusive ==
    \A a, b \in Callers : (InSection(a) /\ InSection(b)) => a = b

=============================================================================
